---- MODULE Spec2Model ----
(***************************************************************************)
(* Model of the page-fetch pipeline of src/scrape.py: scrape_website (the  *)
(* fetch orchestrator), scrape_with_requests (Strategy A),                 *)
(* scrape_with_selenium (Strategy B), the guard and outcome of             *)
(* parse_dom_content, and the marker-prefix test the UI handlers apply to  *)
(* the value scrape_website returns.                                       *)
(*                                                                         *)
(* Strings are sequences of characters (one-character strings); a longer   *)
(* element stands for a run of characters whose content no code inspects.  *)
(* Python values are tagged records so that None, "" and a dict stay       *)
(* distinct, as they are for Python's truth test.                          *)
(***************************************************************************)
EXTENDS Naturals, Sequences, FiniteSets

\* Number of scrape_website calls one behaviour makes.
MaxCalls == 3

\* Number of markup fragments a page handed to parse_dom_content is made of.
MaxFragments == 2

\* Length of the text handed to create_content_chunks, in characters.
MaxLen == 6

\* Largest chunk_size handed to create_content_chunks.
MaxSize == 4

\* Number of chunks handed to analyze_content_with_llm.
MaxChunks == 3

----------------------------------------------------------------------------
\* Python values

NoneVal == [type |-> "None"]

StrVal(s) == [type |-> "str", s |-> s]

DictVal(h, d, u) == [type |-> "dict", html |-> h, dom_data |-> d, url |-> u]

\* A Python list, as a returned value.
ListVal(items) == [type |-> "list", items |-> items]

\* Python's truth test on None or a str: `not html`, `if html:`
Falsy(v) == v.type = "None" \/ (v.type = "str" /\ v.s = <<>>)

\* str.startswith(prefix)
StartsWith(s, p) == Len(s) >= Len(p) /\ SubSeq(s, 1, Len(p)) = p

----------------------------------------------------------------------------
\* String constants of the program

\* The one-character error marker (U+274C) that opens every failure string.
ErrorMarker == "(x)"

HttpPrefix == <<"h", "t", "t", "p", ":", "/", "/">>

HttpsPrefix == <<"h", "t", "t", "p", "s", ":", "/", "/">>

EmptyUrlMessage == <<ErrorMarker, " ", "Please provide a valid URL">>

AllFailedMessage == <<ErrorMarker, " ", "All scraping methods failed.">>

\* 'No title found', character by character.
NoTitleFound ==
    <<"N", "o", " ", "t", "i", "t", "l", "e", " ", "f", "o", "u", "n", "d">>

----------------------------------------------------------------------------
\* Inputs

\* URLs a caller passes: empty, scheme-less, http, https, an upper-case
\* scheme and a scheme other than http(s).
Urls ==
    { <<>>,
      <<"a", ".", "b">>,
      HttpPrefix \o <<"a">>,
      HttpsPrefix \o <<"a">>,
      <<"H", "T", "T", "P", ":", "/", "/", "a">>,
      <<"f", "t", "p", ":", "/", "/", "a">> }

PlainPage == <<"<p>", "hi", "</p>">>

TitledPage == <<"<title>", "T", "</title>", "<p>", "hi", "</p>">>

EmptyTitlePage == <<"<title>", "</title>">>

EmptyBody == <<>>

MarkerBody == <<ErrorMarker, " ", "sold out">>

\* driver.page_source is the serialisation of the browser's document: it
\* always holds at least the document element, so it is never empty and
\* never begins with the error marker.
BrowserMarkup == {PlainPage, TitledPage, EmptyTitlePage}

\* response.text is whatever the server sent, including nothing.
ResponseBodies == BrowserMarkup \cup {EmptyBody, MarkerBody}

NoFault == "ok"

\* What can go wrong inside requests.get / raise_for_status.
RequestFaults == {"http_status", "connection", "timeout", "tls"}

\* What can go wrong inside the browser session, by the step that throws.
BrowserFaults == {"launch", "script", "navigation", "page_source"}

\* Every fault above is raised as a subclass of Exception.
ExceptionClasses == RequestFaults \cup BrowserFaults

----------------------------------------------------------------------------
\* urllib.parse, as used by parse_dom_content. URLs are strings without
\* query, fragment or dot segments.

AsciiAlpha == {"a", "b", "c", "d", "e", "f", "g", "h", "i", "l", "m", "n",
               "o", "p", "s", "t", "x", "y",
               "A", "B", "H", "P", "S", "T"}

SchemeChars == AsciiAlpha \cup {"0", "1", "8", "+", "-", "."}

\* str.lower() on one character
LowerChar(c) ==
    CASE c = "A" -> "a" [] c = "B" -> "b" [] c = "H" -> "h"
      [] c = "P" -> "p" [] c = "S" -> "s" [] c = "T" -> "t"
      [] OTHER -> c

Lower(s) == [i \in 1..Len(s) |-> LowerChar(s[i])]

\* s[i:] of Python, i counted from 1 here
From(s, i) == SubSeq(s, i, Len(s))

\* str.find(c), counted from 1; 0 when absent
Find(s, c) ==
    IF \E i \in 1..Len(s) : s[i] = c
    THEN CHOOSE i \in 1..Len(s) : s[i] = c /\ \A j \in 1..(i - 1) : s[j] # c
    ELSE 0

\* The schemes of uses_relative and uses_netloc that matter here.
UsesRelative == {<<>>, <<"h", "t", "t", "p">>, <<"h", "t", "t", "p", "s">>,
                 <<"f", "t", "p">>}

\* urlsplit(url, scheme=default): scheme, netloc and the rest as path
urlsplit(url, default) ==
    LET i == Find(url, ":")
        hasScheme == /\ i > 1
                     /\ url[1] \in AsciiAlpha
                     /\ \A j \in 1..(i - 1) : url[j] \in SchemeChars
        scheme == IF hasScheme THEN Lower(SubSeq(url, 1, i - 1)) ELSE default
        rest == IF hasScheme THEN From(url, i + 1) ELSE url
        hasNetloc == Len(rest) >= 2 /\ rest[1] = "/" /\ rest[2] = "/"
        after == From(rest, 3)
        k == Find(after, "/")
        netloc == IF ~hasNetloc THEN <<>>
                  ELSE IF k = 0 THEN after ELSE SubSeq(after, 1, k - 1)
        path == IF ~hasNetloc THEN rest
                ELSE IF k = 0 THEN <<>> ELSE From(after, k)
    IN  [scheme |-> scheme, netloc |-> netloc, path |-> path]

\* urlunparse((scheme, netloc, path, '', '', ''))
urlunparse(scheme, netloc, path) ==
    LET p1 == IF netloc # <<>> /\ path # <<>> /\ path[1] # "/"
              THEN <<"/">> \o path ELSE path
        u1 == IF netloc # <<>>
                 \/ (scheme # <<>> /\ scheme \in UsesRelative
                     /\ ~(Len(path) >= 2 /\ path[1] = "/" /\ path[2] = "/"))
              THEN <<"/", "/">> \o netloc \o p1 ELSE path
    IN  IF scheme # <<>> THEN scheme \o <<":">> \o u1 ELSE u1

\* The directory part of a base path: everything up to its last "/".
BaseDir(bpath) ==
    IF \E i \in 1..Len(bpath) : bpath[i] = "/"
    THEN LET last == CHOOSE i \in 1..Len(bpath) :
                        bpath[i] = "/" /\ \A j \in (i + 1)..Len(bpath) : bpath[j] # "/"
         IN  SubSeq(bpath, 1, last)
    ELSE <<>>

\* urljoin(base, url)
urljoin(base, url) ==
    IF base = <<>> THEN url
    ELSE IF url = <<>> THEN base
    ELSE LET b == urlsplit(base, <<>>)
             r == urlsplit(url, b.scheme)
         IN  IF r.scheme # b.scheme \/ r.scheme \notin UsesRelative THEN url
             ELSE IF r.netloc # <<>>
                  THEN urlunparse(r.scheme, r.netloc, r.path)
             ELSE IF r.path = <<>>
                  THEN urlunparse(r.scheme, b.netloc, b.path)
             ELSE IF r.path[1] = "/"
                  THEN urlunparse(r.scheme, b.netloc, r.path)
             ELSE urlunparse(r.scheme, b.netloc, BaseDir(b.path) \o r.path)

\* urlparse(url).netloc
Netloc(url) == urlsplit(url, <<>>).netloc

----------------------------------------------------------------------------
\* BeautifulSoup(html_content, 'html.parser'), as used by the code.
\*
\* Markup is a sequence of tokens: a start tag (with its attributes), an end
\* tag, or a run of text. Adjacent runs of text make one text node. An
\* element reaches from its start tag to the matching end tag, or to the end
\* of the markup when the end tag is missing.

PlainOpen ==
    [title |-> "<title>", b |-> "<b>", p |-> "<p>", h1 |-> "<h1>",
     h2 |-> "<h2>", h3 |-> "<h3>", ul |-> "<ul>", ol |-> "<ol>",
     li |-> "<li>", table |-> "<table>", tr |-> "<tr>", td |-> "<td>",
     th |-> "<th>", script |-> "<script>", style |-> "<style>",
     a |-> "<a>", form |-> "<form>"]

CloseTag ==
    [title |-> "</title>", b |-> "</b>", p |-> "</p>", h1 |-> "</h1>",
     h2 |-> "</h2>", h3 |-> "</h3>", ul |-> "</ul>", ol |-> "</ol>",
     li |-> "</li>", table |-> "</table>", tr |-> "</tr>", td |-> "</td>",
     th |-> "</th>", script |-> "</script>", style |-> "</style>",
     a |-> "</a>", form |-> "</form>", textarea |-> "</textarea>",
     select |-> "</select>"]

\* Start tags that carry attributes, by element.
AnchorTags ==
    {"<a href=''>", "<a href=/x>", "<a href=y>", "<a href=//b/x>",
     "<a href=https://a/x>", "<a href=https://a:8/x>", "<a href=https://b/x>",
     "<a href=mailto:m>"}

FormTags == {"<form action=/go method=post>", "<form action=go>",
             "<form action=https://b/go>"}

TextareaTags == {"<textarea name=t>"}

SelectTags == {"<select name=s required>"}

\* Elements that never have content.
ImgTags == {"<img>", "<img src=''>", "<img src=i.png>",
            "<img src=/i.png alt=pic>", "<img src=https://b/i.png title=t>"}

MetaTags == {"<meta name=description content=D>", "<meta name=description>",
             "<meta name=keywords content=K>"}

InputTags == {"<input>", "<input type=text name=q placeholder=find required>"}

VoidTags == ImgTags \cup MetaTags \cup InputTags

OpenTags ==
    {PlainOpen[n] : n \in DOMAIN PlainOpen} \cup AnchorTags \cup FormTags
        \cup TextareaTags \cup SelectTags

EndTags == {CloseTag[n] : n \in DOMAIN CloseTag}

IsStart(tok) == tok \in OpenTags \cup VoidTags

IsText(tok) == tok \notin OpenTags \cup VoidTags \cup EndTags

\* Tag.name of a start tag
TagName(tok) ==
    CASE tok \in AnchorTags -> "a"
      [] tok \in FormTags -> "form"
      [] tok \in TextareaTags -> "textarea"
      [] tok \in SelectTags -> "select"
      [] tok \in ImgTags -> "img"
      [] tok \in MetaTags -> "meta"
      [] tok \in InputTags -> "input"
      [] OTHER -> CHOOSE n \in DOMAIN PlainOpen : PlainOpen[n] = tok

NoAttrs == [x \in {} |-> <<>>]

\* Tag.attrs of a start tag; every value is a string.
Attrs(tok) ==
    CASE tok = "<a href=''>" -> [href |-> <<>>]
      [] tok = "<a href=/x>" -> [href |-> <<"/", "x">>]
      [] tok = "<a href=y>" -> [href |-> <<"y">>]
      [] tok = "<a href=//b/x>" -> [href |-> <<"/", "/", "b", "/", "x">>]
      [] tok = "<a href=https://a/x>" -> [href |-> <<"h", "t", "t", "p", "s", ":", "/", "/", "a", "/", "x">>]
      [] tok = "<a href=https://a:8/x>" -> [href |-> <<"h", "t", "t", "p", "s", ":", "/", "/", "a", ":", "8", "/", "x">>]
      [] tok = "<a href=https://b/x>" -> [href |-> <<"h", "t", "t", "p", "s", ":", "/", "/", "b", "/", "x">>]
      [] tok = "<a href=mailto:m>" -> [href |-> <<"m", "a", "i", "l", "t", "o", ":", "m">>]
      [] tok = "<form action=/go method=post>" ->
            [action |-> <<"/", "g", "o">>, method |-> <<"post">>]
      [] tok = "<form action=go>" -> [action |-> <<"g", "o">>]
      [] tok = "<form action=https://b/go>" -> [action |-> <<"h", "t", "t", "p", "s", ":", "/", "/", "b", "/", "g", "o">>]
      [] tok = "<textarea name=t>" -> [name |-> <<"t">>]
      [] tok = "<select name=s required>" -> [name |-> <<"s">>, required |-> <<>>]
      [] tok = "<img src=''>" -> [src |-> <<>>]
      [] tok = "<img src=i.png>" -> [src |-> <<"i", ".", "p", "n", "g">>]
      [] tok = "<img src=/i.png alt=pic>" ->
            [src |-> <<"/", "i", ".", "p", "n", "g">>, alt |-> <<"pic">>]
      [] tok = "<img src=https://b/i.png title=t>" ->
            [src |-> <<"h", "t", "t", "p", "s", ":", "/", "/", "b", "/", "i", ".", "p", "n", "g">>, title |-> <<"t">>]
      [] tok = "<meta name=description content=D>" ->
            [name |-> <<"description">>, content |-> <<"D">>]
      [] tok = "<meta name=description>" -> [name |-> <<"description">>]
      [] tok = "<meta name=keywords content=K>" ->
            [name |-> <<"keywords">>, content |-> <<"K">>]
      [] tok = "<input type=text name=q placeholder=find required>" ->
            [type |-> <<"text">>, name |-> <<"q">>,
             placeholder |-> <<"find">>, required |-> <<>>]
      [] OTHER -> NoAttrs

\* Tag.has_attr(name)
HasAttr(tok, name) == name \in DOMAIN Attrs(tok)

\* Tag.get(name, default)
GetAttr(tok, name, default) ==
    IF HasAttr(tok, name) THEN Attrs(tok)[name] ELSE default

\* The indices lo..hi in order.
Idx(lo, hi) == [k \in 1..(IF hi >= lo THEN hi - lo + 1 ELSE 0) |-> lo + k - 1]

RECURSIVE MatchFrom(_, _, _, _)
\* Position of the end tag that closes an element `name` opened before j,
\* with `depth` more elements of that name open; Len(m) + 1 when missing.
MatchFrom(m, name, j, depth) ==
    IF j > Len(m) THEN j
    ELSE IF m[j] \in OpenTags /\ TagName(m[j]) = name
         THEN MatchFrom(m, name, j + 1, depth + 1)
    ELSE IF m[j] = CloseTag[name]
         THEN IF depth = 0 THEN j ELSE MatchFrom(m, name, j + 1, depth - 1)
    ELSE MatchFrom(m, name, j + 1, depth)

\* Position where the element started at i ends: its end tag, or i itself
\* for an element without content.
EndOf(m, i) ==
    IF m[i] \in VoidTags THEN i ELSE MatchFrom(m, TagName(m[i]), i + 1, 0)

\* The token at k lies inside a script or style element.
InScriptOrStyle(m, k) ==
    \E i \in 1..(k - 1) :
        /\ m[i] \in {"<script>", "<style>"}
        /\ EndOf(m, i) > k

\* find_all(names) below the element at i (i = 0: the whole document), as
\* positions in document order.
FindAll(m, i, names) ==
    LET lo == i + 1
        hi == IF i = 0 THEN Len(m) ELSE EndOf(m, i) - 1
        hit(k) == IsStart(m[k]) /\ TagName(m[k]) \in names
    IN  SelectSeq(Idx(lo, hi), hit)

\* get_text() of the element at i (i = 0: the whole document): its text
\* runs in order; the strings of script and style elements are left out.
GetText(m, i) ==
    LET lo == i + 1
        hi == IF i = 0 THEN Len(m) ELSE EndOf(m, i) - 1
        shown(k) == IsText(m[k]) /\ ~InScriptOrStyle(m, k)
        at == SelectSeq(Idx(lo, hi), shown)
    IN  [k \in 1..Len(at) |-> m[at[k]]]

Whitespace == {" ", "\n"}

\* str.strip()
Strip(t) ==
    IF \A k \in 1..Len(t) : t[k] \in Whitespace THEN <<>>
    ELSE LET first == CHOOSE k \in 1..Len(t) :
                         t[k] \notin Whitespace
                         /\ \A j \in 1..(k - 1) : t[j] \in Whitespace
             last == CHOOSE k \in 1..Len(t) :
                        t[k] \notin Whitespace
                        /\ \A j \in (k + 1)..Len(t) : t[j] \in Whitespace
         IN  SubSeq(t, first, last)

RECURSIVE Contents(_, _, _, _)
\* Tag.contents between lo and hi: the positions where the child nodes
\* start; a group of adjacent text runs is one child.
Contents(m, lo, hi, afterText) ==
    IF lo > hi THEN <<>>
    ELSE IF IsText(m[lo])
         THEN (IF afterText THEN <<>> ELSE <<lo>>) \o Contents(m, lo + 1, hi, TRUE)
    ELSE IF IsStart(m[lo])
         THEN <<lo>> \o Contents(m, EndOf(m, lo) + 1, hi, FALSE)
    ELSE Contents(m, lo + 1, hi, FALSE)

RECURSIVE TagString(_, _)
\* Tag.string of the element at i: the only child when it is a text node,
\* the .string of the only child when it is an element, else None.
TagString(m, i) ==
    LET hi == EndOf(m, i) - 1
        kids == Contents(m, i + 1, hi, FALSE)
    IN  IF Len(kids) # 1 THEN NoneVal
        ELSE IF IsText(m[kids[1]]) THEN StrVal(SubSeq(m, i + 1, hi))
        ELSE TagString(m, kids[1])

----------------------------------------------------------------------------
\* Pure parts of the code

\* Variant: the empty-input guard is missing.
IsEmptyInput_NoGuard(u) == FALSE

\* `if not website:` of scrape_website
IsEmptyInput(u) == u = <<>>

\* "Add protocol if missing": the test is a case-sensitive prefix test for
\* exactly 'http://' and 'https://'.
Normalize(u) ==
    IF StartsWith(u, HttpPrefix) \/ StartsWith(u, HttpsPrefix)
    THEN u
    ELSE HttpsPrefix \o u

\* Variant: the handlers take only the HTTP library's exceptions.
Caught_RequestsOnly(fault) == fault \in RequestFaults

\* `except Exception as e:` of both strategies: the handler takes every
\* instance of Exception.
Caught(fault) == fault \in ExceptionClasses

\* `if not html:` after Strategy A: the fallback test is Python's truth
\* test, so None and the empty string both fall back.
ShouldFallback(h) == Falsy(h)

\* soup.title: the first title element, as a sequence of at most one
\* position.
SoupTitle(m) ==
    LET all == FindAll(m, 0, {"title"})
    IN  IF all = <<>> THEN <<>> ELSE <<all[1]>>

\* soup.title.string is None when the first title element has no single
\* string child; .strip() on it raises AttributeError inside the try.
TitleStringIsNone(m) ==
    SoupTitle(m) # <<>> /\ TagString(m, SoupTitle(m)[1]) = NoneVal

\* 'title': soup.title.string.strip() if soup.title else 'No title found'
Title(m) ==
    IF SoupTitle(m) = <<>> THEN NoTitleFound
    ELSE Strip(TagString(m, SoupTitle(m)[1]).s)

\* soup.find('meta', attrs={'name': 'description'}) and its content
MetaDescription(m) ==
    LET isDesc(k) == GetAttr(m[k], "name", <<>>) = <<"description">>
        found == SelectSeq(FindAll(m, 0, {"meta"}), isDesc)
    IN  IF found = <<>> THEN <<>> ELSE GetAttr(m[found[1]], "content", <<>>)

\* [h.get_text().strip() for h in soup.find_all(tag)]
Headings(m, tag) ==
    LET at == FindAll(m, 0, {tag})
    IN  [k \in 1..Len(at) |-> Strip(GetText(m, at[k]))]

\* One entry of dom_data['links'].
Link(m, i, base) ==
    LET link_url == urljoin(base, Attrs(m[i]).href)
    IN  [text |-> Strip(GetText(m, i)),
         url |-> link_url,
         is_external |-> Netloc(link_url) # Netloc(base)]

HasText(link) == link.text # <<>>

\* The loop over soup.find_all('a', href=True)
Links(m, base) ==
    LET withHref(k) == HasAttr(m[k], "href")
        at == SelectSeq(FindAll(m, 0, {"a"}), withHref)
        all == [k \in 1..Len(at) |-> Link(m, at[k], base)]
    IN  SelectSeq(all, HasText)

\* One entry of dom_data['images'].
Image(tok, base) ==
    [src |-> urljoin(base, Attrs(tok).src),
     alt |-> GetAttr(tok, "alt", <<>>),
     title |-> GetAttr(tok, "title", <<>>)]

\* The loop over soup.find_all('img')
Images(m, base) ==
    LET withSrc(k) == GetAttr(m[k], "src", <<>>) # <<>>
        at == SelectSeq(FindAll(m, 0, {"img"}), withSrc)
    IN  [k \in 1..Len(at) |-> Image(m[at[k]], base)]

\* [p.get_text().strip() for p in soup.find_all('p') if p.get_text().strip()]
Paragraphs(m) ==
    LET nonEmpty(k) == Strip(GetText(m, k)) # <<>>
        at == SelectSeq(FindAll(m, 0, {"p"}), nonEmpty)
    IN  [k \in 1..Len(at) |-> Strip(GetText(m, at[k]))]

\* The loop over soup.find_all(['ul', 'ol'])
Lists(m) ==
    LET items(i) == LET li == FindAll(m, i, {"li"})
                    IN  [k \in 1..Len(li) |-> Strip(GetText(m, li[k]))]
        hasItems(i) == items(i) # <<>>
        at == SelectSeq(FindAll(m, 0, {"ul", "ol"}), hasItems)
    IN  [k \in 1..Len(at) |-> [type |-> TagName(m[at[k]]), items |-> items(at[k])]]

\* table_data of one table: one row_data per tr below it that has cells.
TableData(m, i) ==
    LET row(r) == LET cells == FindAll(m, r, {"td", "th"})
                  IN  [k \in 1..Len(cells) |-> Strip(GetText(m, cells[k]))]
        hasCells(r) == row(r) # <<>>
        rows == SelectSeq(FindAll(m, i, {"tr"}), hasCells)
    IN  [k \in 1..Len(rows) |-> row(rows[k])]

\* Variant: a table is stored also when none of its rows has cells.
Tables_KeepEmpty(m) ==
    LET at == FindAll(m, 0, {"table"})
    IN  [k \in 1..Len(at) |-> TableData(m, at[k])]

\* The loop over soup.find_all('table')
Tables(m) ==
    LET hasRows(i) == TableData(m, i) # <<>>
        at == SelectSeq(FindAll(m, 0, {"table"}), hasRows)
    IN  [k \in 1..Len(at) |-> TableData(m, at[k])]

\* One entry of form_data['inputs'].
FormInput(tok) ==
    [type |-> GetAttr(tok, "type", <<TagName(tok)>>),
     name |-> GetAttr(tok, "name", <<>>),
     placeholder |-> GetAttr(tok, "placeholder", <<>>),
     required |-> HasAttr(tok, "required")]

\* One entry of dom_data['forms']: the action is stored as written.
Form(m, i) ==
    LET fields == FindAll(m, i, {"input", "textarea", "select"})
    IN  [action |-> GetAttr(m[i], "action", <<>>),
         method |-> GetAttr(m[i], "method", <<"get">>),
         inputs |-> [k \in 1..Len(fields) |-> FormInput(m[fields[k]])]]

\* The loop over soup.find_all('form')
Forms(m) ==
    LET at == FindAll(m, 0, {"form"})
    IN  [k \in 1..Len(at) |-> Form(m, at[k])]

\* re.findall(email_pattern, run) for one run of text that stands between
\* whitespace.
EmailsIn(run) == IF run \in {"a@b.co", "A@b.co"} THEN <<run>> ELSE <<>>

\* re.findall(phone_patterns[n], run) for one run of text that stands
\* between whitespace: n = 1 the 10-digit form, n = 2 the parenthesised area
\* code (which needs a word character before the parenthesis), n = 3 the
\* international form (which needs a word character before the plus sign).
PhonesIn(n, run) ==
    CASE n = 1 /\ run \in {"555-123-4567", "5551234567"} -> <<run>>
      [] n = 1 /\ run = "fax+1-5551234567" -> <<"5551234567">>
      [] n = 2 /\ run = "tel(555) 123-4567" -> <<"(555) 123-4567">>
      [] n = 3 /\ run = "fax+1-5551234567" -> <<"+1-5551234567">>
      [] OTHER -> <<>>

RECURSIVE FindallEmails(_)
\* re.findall(email_pattern, text_content)
FindallEmails(text) ==
    IF text = <<>> THEN <<>>
    ELSE EmailsIn(Head(text)) \o FindallEmails(Tail(text))

RECURSIVE FindallPhones(_, _)
\* re.findall(phone_patterns[n], text_content)
FindallPhones(n, text) ==
    IF text = <<>> THEN <<>>
    ELSE PhonesIn(n, Head(text)) \o FindallPhones(n, Tail(text))

\* set(list)
ToSet(seq) == {seq[k] : k \in 1..Len(seq)}

RECURSIVE SetToList(_)
\* list(set): the members once each, in an order the code does not fix.
SetToList(S) ==
    IF S = {} THEN <<>>
    ELSE LET x == CHOOSE x \in S : TRUE
         IN  <<x>> \o SetToList(S \ {x})

\* Variant: the matches are stored as found, without list(set(...)).
Dedup_Missing(seq) == seq

\* list(set(matches))
Dedup(seq) == SetToList(ToSet(seq))

\* dom_data['contact_info']: the e-mail matches, and the matches of the
\* three phone patterns appended in turn, each list deduplicated.
ContactInfo(m) ==
    LET text_content == GetText(m, 0)
    IN  [emails |-> Dedup(FindallEmails(text_content)),
         phones |-> Dedup(FindallPhones(1, text_content)
                          \o FindallPhones(2, text_content)
                          \o FindallPhones(3, text_content)),
         addresses |-> <<>>]

\* The document parse_dom_content builds from (html_content, base_url).
Document(m, u) ==
    [type |-> "doc",
     title |-> Title(m),
     meta_description |-> MetaDescription(m),
     headings |-> [h1 |-> Headings(m, "h1"), h2 |-> Headings(m, "h2"),
                   h3 |-> Headings(m, "h3")],
     links |-> Links(m, u),
     images |-> Images(m, u),
     paragraphs |-> Paragraphs(m),
     lists |-> Lists(m),
     tables |-> Tables(m),
     forms |-> Forms(m),
     contact_info |-> ContactInfo(m)]

\* Variant: the guard tests only for the empty string.
GuardRejects_EmptyOnly(m) == m = <<>>

\* The guard of parse_dom_content:
\* `if not html_content or html_content.startswith(marker): return None`
GuardRejects(m) == m = <<>> \/ StartsWith(m, <<ErrorMarker>>)

\* parse_dom_content: the guard, then the parse inside try/except, whose
\* handler returns None.
parse_dom_content(m, u) ==
    IF GuardRejects(m)
    THEN NoneVal
    ELSE IF TitleStringIsNone(m)
         THEN NoneVal
         ELSE Document(m, u)

\* One entry of the invocation log.
Event(fn, u, m) == [fn |-> fn, url |-> u, html |-> m]

\* Variant: the extractor runs before the parse_dom flag is looked at.
ExtractEvents_Always(h, pd, u) ==
    IF ~Falsy(h) THEN <<Event("extract", u, h.s)>> ELSE <<>>

\* The calls of parse_dom_content that the tail of scrape_website makes.
ExtractEvents(h, pd, u) ==
    IF ~Falsy(h) /\ pd THEN <<Event("extract", u, h.s)>> ELSE <<>>

\* Variant: the final else branch is missing, so the function falls off its
\* end and returns None.
Outcome_NoElse(h, pd, u) ==
    IF ~Falsy(h)
    THEN IF pd
         THEN DictVal(h.s, parse_dom_content(h.s, u), u)
         ELSE h
    ELSE NoneVal

\* The value the tail of scrape_website returns (`if html:` ... `else:`).
Outcome(h, pd, u) ==
    IF ~Falsy(h)
    THEN IF pd
         THEN DictVal(h.s, parse_dom_content(h.s, u), u)
         ELSE h
    ELSE StrVal(AllFailedMessage)

\* The value returned for empty input.
EmptyInputOutcome == StrVal(EmptyUrlMessage)

\* The UI handlers' test on the returned value:
\* isinstance(result, str) and result.startswith(marker)
HandlerTreatsAsFailure(r) == r.type = "str" /\ StartsWith(r.s, <<ErrorMarker>>)

----------------------------------------------------------------------------
\* State

VARIABLES
    pc,          \* position of the single thread of control
    calls,       \* scrape_website calls started so far
    in_url,      \* argument `website` of the current call, as passed
    parse_dom,   \* argument `parse_dom` of the current call
    website,     \* local `website` of scrape_website
    html,        \* local `html` of scrape_website
    page,        \* local `html` of scrape_with_selenium
    response,    \* response.text Strategy A received, None when it got none
    ret,         \* value scrape_website returned
    live,        \* browser processes launched and not quit
    trace,       \* invocation log of the current call
    aOutcome,    \* what Strategy A met: "none", "success", "failure"
    bOutcome,    \* what Strategy B met: "none", "success", "failure"
    raised,      \* an exception left scrape_website
    shown        \* what the calling handler displayed: "none", "error", "success"

\* State of one stand-alone call of parse_dom_content
VARIABLES
    xpc,           \* "off", "called" (arguments bound), "returned"
    html_content,  \* parameter html_content
    base_url,      \* parameter base_url
    soup_built,    \* BeautifulSoup(html_content, 'html.parser') was run
    dom_data       \* the value returned

\* State of one stand-alone call of create_content_chunks
VARIABLES
    cpc,           \* "off", "called" (arguments bound), "returned"
    content,       \* parameter content
    chunk_size,    \* parameter chunk_size
    chunk_overlap, \* parameter chunk_overlap
    content_text,  \* local content_text after the whitespace clean-up
    chunks,        \* the value returned
    separator,     \* position in separators of the one split_text starts with
    chunk_raised   \* an exception left create_content_chunks

\* State of one stand-alone call of analyze_content_with_llm
VARIABLES
    apc,            \* "off", "called" (arguments bound), "loop", "returned"
    an_chunks,      \* parameter chunks
    analysis_type,  \* parameter analysis_type
    llm,            \* "none", "ready" (OllamaLLM constructed), "failed"
    an_i,           \* chunks the for loop is through with
    results,        \* local results
    an_ret,         \* the value returned
    invoked,        \* the prompts llm.invoke was called with, in order
    outcomes,       \* how each llm.invoke ended: "answer" or the fault raised
    an_raised       \* an exception left analyze_content_with_llm

\* State of two calls of scrape_website that run interleaved
VARIABLES
    thread,    \* for each call its position, arguments, locals and result
    sessions   \* the browser sessions launched so far, in launch order

\* State of one browser session of the main page (app.py)
VARIABLES
    ui_pc,             \* "waiting" for the user, or the script's position
    scraped_content,   \* st.session_state.scraped_content; None: key absent
    dom_visible,       \* st.session_state.dom_visible; None: key absent
    typed_url,         \* what the text input holds
    selected_example,  \* the option the select box holds
    scrape_clicked,    \* the Scrape Site button was clicked for this run
    ui_url,            \* local url of the script
    ui_result,         \* local result of the button's handler
    ui_shown           \* what the handler showed: "none", "error", "success",
                       \* "warning"

fetchVars == <<pc, calls, in_url, parse_dom, website, html, page, response, ret,
               live, trace, aOutcome, bOutcome, raised, shown>>

extractVars == <<xpc, html_content, base_url, soup_built, dom_data>>

chunkVars == <<cpc, content, chunk_size, chunk_overlap, content_text, chunks,
               separator, chunk_raised>>

analyzeVars == <<apc, an_chunks, analysis_type, llm, an_i, results, an_ret,
                 invoked, outcomes, an_raised>>

pairVars == <<thread, sessions>>

uiVars == <<ui_pc, scraped_content, dom_visible, typed_url, selected_example,
            scrape_clicked, ui_url, ui_result, ui_shown>>

vars == <<fetchVars, extractVars, chunkVars, analyzeVars, pairVars, uiVars>>

\* What an action of one function leaves alone: the state of the others.
exceptFetch == <<extractVars, chunkVars, analyzeVars, pairVars, uiVars>>

exceptExtract == <<fetchVars, chunkVars, analyzeVars, pairVars, uiVars>>

exceptChunk == <<fetchVars, extractVars, analyzeVars, pairVars, uiVars>>

exceptAnalyze == <<fetchVars, extractVars, chunkVars, pairVars, uiVars>>

exceptPair == <<fetchVars, extractVars, chunkVars, analyzeVars, uiVars>>

exceptUi == <<fetchVars, extractVars, chunkVars, analyzeVars, pairVars>>

\* "Select an example...", the first option of the select box
NoExample == "Select an example..."

\* No browser session of the main page is open.
UiOff ==
    /\ ui_pc = "off"
    /\ scraped_content = NoneVal
    /\ dom_visible = NoneVal
    /\ typed_url = <<>>
    /\ selected_example = NoExample
    /\ scrape_clicked = FALSE
    /\ ui_url = <<>>
    /\ ui_result = NoneVal
    /\ ui_shown = "none"

\* The two calls.
Threads == {"first", "second"}

\* The locals of a call of scrape_website that has not started.
NotStarted ==
    [pc |-> "idle", in_url |-> <<>>, parse_dom |-> FALSE, website |-> <<>>,
     html |-> NoneVal, driver |-> 0, ret |-> NoneVal,
     a |-> NoneVal, b |-> "none", loaded |-> NoneVal]

\* No pair of interleaved calls is under way.
PairOff ==
    /\ thread = [t \in Threads |-> NotStarted]
    /\ sessions = <<>>

\* No call of analyze_content_with_llm is under way.
AnalyzeOff ==
    /\ apc = "off"
    /\ an_chunks = <<>>
    /\ analysis_type = "summarize"
    /\ llm = "none"
    /\ an_i = 0
    /\ results = <<>>
    /\ an_ret = NoneVal
    /\ invoked = <<>>
    /\ outcomes = <<>>
    /\ an_raised = FALSE

\* No call of parse_dom_content is under way.
ExtractOff ==
    /\ xpc = "off"
    /\ html_content = <<>>
    /\ base_url = <<>>
    /\ soup_built = FALSE
    /\ dom_data = NoneVal

\* No call of create_content_chunks is under way.
ChunkOff ==
    /\ cpc = "off"
    /\ content = NoneVal
    /\ chunk_size = 2
    /\ chunk_overlap = 1
    /\ content_text = <<>>
    /\ chunks = <<>>
    /\ separator = 0
    /\ chunk_raised = FALSE



\* No call of scrape_website has been made.
FetchIdle ==
    /\ pc = "idle"
    /\ calls = 0
    /\ in_url = <<>>
    /\ parse_dom = FALSE
    /\ website = <<>>
    /\ html = NoneVal
    /\ page = NoneVal
    /\ response = NoneVal
    /\ ret = NoneVal
    /\ live = 0
    /\ trace = <<>>
    /\ aOutcome = "none"
    /\ bOutcome = "none"
    /\ raised = FALSE
    /\ shown = "none"

Init == FetchIdle /\ ExtractOff /\ ChunkOff /\ AnalyzeOff /\ PairOff /\ UiOff

----------------------------------------------------------------------------
\* scrape_website, entry: the empty-input guard and the normalisation

Call(u, pd) ==
    /\ pc = "idle"
    /\ calls < MaxCalls
    /\ calls' = calls + 1
    /\ in_url' = u
    /\ parse_dom' = pd
    /\ html' = NoneVal
    /\ page' = NoneVal
    /\ response' = NoneVal
    /\ trace' = <<>>
    /\ aOutcome' = "none"
    /\ bOutcome' = "none"
    /\ shown' = "none"
    /\ IF IsEmptyInput(u)
       THEN /\ website' = u
            /\ ret' = EmptyInputOutcome
            /\ pc' = "done"
       ELSE /\ website' = Normalize(u)
            /\ ret' = NoneVal
            /\ pc' = "requests"
    /\ UNCHANGED <<live, raised>>
    /\ UNCHANGED exceptFetch

\* scrape_with_requests, whole: the GET, raise_for_status, and the handler;
\* then the fallback test of scrape_website.
ScrapeWithRequests ==
    /\ pc = "requests"
    /\ trace' = Append(trace, Event("A", website, <<>>))
    /\ \E fault \in RequestFaults \cup {NoFault}, body \in ResponseBodies :
         IF fault = NoFault
         THEN /\ aOutcome' = "success"
              /\ response' = StrVal(body)
              /\ html' = StrVal(body)
              /\ pc' = IF ShouldFallback(StrVal(body)) THEN "launch" ELSE "finish"
              /\ UNCHANGED raised
         ELSE IF Caught(fault)
              THEN /\ aOutcome' = "failure"
                   /\ response' = NoneVal
                   /\ html' = NoneVal
                   /\ pc' = IF ShouldFallback(NoneVal) THEN "launch" ELSE "finish"
                   /\ UNCHANGED raised
              ELSE /\ aOutcome' = "failure"
                   /\ response' = NoneVal
                   /\ html' = NoneVal
                   /\ pc' = "raised"
                   /\ raised' = TRUE
    /\ UNCHANGED <<calls, in_url, parse_dom, website, page, ret, live,
                   bOutcome, shown>>
    /\ UNCHANGED exceptFetch

\* The handler of scrape_with_selenium: print and return None. It holds no
\* call of driver.quit().
SeleniumHandler(fault) ==
    /\ bOutcome' = "failure"
    /\ html' = NoneVal
    /\ IF Caught(fault)
       THEN pc' = "finish" /\ UNCHANGED raised
       ELSE pc' = "raised" /\ raised' = TRUE

\* scrape_with_selenium: options, driver install and webdriver.Chrome(...)
SeleniumLaunch ==
    /\ pc = "launch"
    /\ \/ /\ live' = live + 1
          /\ trace' = trace \o <<Event("B", website, <<>>),
                                 Event("launch", website, <<>>)>>
          /\ pc' = "stealth"
          /\ UNCHANGED <<html, bOutcome, raised>>
       \/ /\ trace' = Append(trace, Event("B", website, <<>>))
          /\ SeleniumHandler("launch")
          /\ UNCHANGED live
    /\ UNCHANGED <<calls, in_url, parse_dom, website, page, response, ret,
                   aOutcome, shown>>
    /\ UNCHANGED exceptFetch

\* driver.execute_script(...)
SeleniumStealth ==
    /\ pc = "stealth"
    /\ \/ pc' = "navigate" /\ UNCHANGED <<html, bOutcome, raised>>
       \/ SeleniumHandler("script")
    /\ UNCHANGED <<calls, in_url, parse_dom, website, page, response, ret,
                   live, trace, aOutcome, shown>>
    /\ UNCHANGED exceptFetch

\* driver.get(website) and the settle sleep
SeleniumGet ==
    /\ pc = "navigate"
    /\ \/ pc' = "source" /\ UNCHANGED <<html, bOutcome, raised>>
       \/ SeleniumHandler("navigation")
    /\ UNCHANGED <<calls, in_url, parse_dom, website, page, response, ret,
                   live, trace, aOutcome, shown>>
    /\ UNCHANGED exceptFetch

\* html = driver.page_source
SeleniumPageSource ==
    /\ pc = "source"
    /\ \/ /\ \E m \in BrowserMarkup : page' = StrVal(m)
          /\ pc' = "quit"
          /\ UNCHANGED <<html, bOutcome, raised>>
       \/ /\ SeleniumHandler("page_source")
          /\ UNCHANGED page
    /\ UNCHANGED <<calls, in_url, parse_dom, website, response, ret, live,
                   trace, aOutcome, shown>>
    /\ UNCHANGED exceptFetch

\* Variant: the browser is closed but the page source is not returned.
SeleniumQuit_NoReturn ==
    /\ pc = "quit"
    /\ live' = live - 1
    /\ trace' = Append(trace, Event("quit", website, <<>>))
    /\ bOutcome' = "success"
    /\ html' = NoneVal
    /\ pc' = "finish"
    /\ UNCHANGED <<calls, in_url, parse_dom, website, page, response, ret,
                   aOutcome, raised, shown>>
    /\ UNCHANGED exceptFetch

\* driver.quit(); return html
SeleniumQuit ==
    /\ pc = "quit"
    /\ live' = live - 1
    /\ trace' = Append(trace, Event("quit", website, <<>>))
    /\ bOutcome' = "success"
    /\ html' = page
    /\ pc' = "finish"
    /\ UNCHANGED <<calls, in_url, parse_dom, website, page, response, ret,
                   aOutcome, raised, shown>>
    /\ UNCHANGED exceptFetch

\* scrape_website, tail: `if html:` ... return
Finish ==
    /\ pc = "finish"
    /\ trace' = trace \o ExtractEvents(html, parse_dom, website)
    /\ ret' = Outcome(html, parse_dom, website)
    /\ pc' = "done"
    /\ UNCHANGED <<calls, in_url, parse_dom, website, html, page, response,
                   live, aOutcome, bOutcome, raised, shown>>
    /\ UNCHANGED exceptFetch

\* The calling handler receives the value and tests the marker prefix.
Return ==
    /\ pc = "done"
    /\ shown' = IF HandlerTreatsAsFailure(ret) THEN "error" ELSE "success"
    /\ pc' = "idle"
    /\ UNCHANGED <<calls, in_url, parse_dom, website, html, page, response,
                   ret, live, trace, aOutcome, bOutcome, raised>>
    /\ UNCHANGED exceptFetch

Next ==
    \/ \E u \in Urls, pd \in BOOLEAN : Call(u, pd)
    \/ ScrapeWithRequests
    \/ SeleniumLaunch
    \/ SeleniumStealth
    \/ SeleniumGet
    \/ SeleniumPageSource
    \/ SeleniumQuit
    \/ Finish
    \/ Return

Spec == Init /\ [][Next]_vars

TypeOK ==
    /\ pc \in {"idle", "requests", "launch", "stealth", "navigate", "source",
               "quit", "finish", "done", "raised"}
    /\ calls \in 0..MaxCalls
    /\ in_url \in Urls
    /\ parse_dom \in BOOLEAN
    /\ live \in 0..MaxCalls
    /\ Len(trace) <= 5
    /\ aOutcome \in {"none", "success", "failure"}
    /\ bOutcome \in {"none", "success", "failure"}
    /\ raised \in BOOLEAN
    /\ shown \in {"none", "error", "success"}

----------------------------------------------------------------------------
\* create_content_chunks: the text of a markup string, and the
\* RecursiveCharacterTextSplitter of langchain with the arguments the code
\* gives it (keep_separator and strip_whitespace at their defaults, True).
\* A piece of text is a record: s its characters, at the position of its
\* first character in the text being split.

\* `for script in soup(["script", "style"]): script.decompose()`
Decompose(m) ==
    LET kept(k) == /\ m[k] \notin {"<script>", "</script>", "<style>", "</style>"}
                   /\ ~InScriptOrStyle(m, k)
        at == SelectSeq(Idx(1, Len(m)), kept)
    IN  [k \in 1..Len(at) |-> m[at[k]]]

\* Variant: the text runs of script and style elements stay in the text.
ContentText_KeepScripts(m) ==
    LET at == SelectSeq(Idx(1, Len(m)), LAMBDA k : IsText(m[k]))
    IN  [k \in 1..Len(at) |-> m[at[k]]]

\* content_text of a markup string: decompose, then soup.get_text()
ContentText(m) == GetText(Decompose(m), 0)

RECURSIVE JoinLines(_)
\* "\n".join(text_parts)
JoinLines(text_parts) ==
    IF text_parts = <<>> THEN <<>>
    ELSE IF Len(text_parts) = 1 THEN text_parts[1]
    ELSE text_parts[1] \o <<"\n">> \o JoinLines(Tail(text_parts))

\* f"{level.upper()}: " for the keys of dom_data['headings']
LevelPrefix(level) ==
    CASE level = "h1" -> <<"H", "1", ":", " ">>
      [] level = "h2" -> <<"H", "2", ":", " ">>
      [] level = "h3" -> <<"H", "3", ":", " ">>

\* The lines of the headings of one level.
HeadingLines(d, level) ==
    [k \in 1..Len(d.headings[level]) |-> LevelPrefix(level) \o d.headings[level][k]]

RECURSIVE ListItems(_)
\* text_parts.extend(lst['items']) over dom_data['lists']
ListItems(lists) ==
    IF lists = <<>> THEN <<>> ELSE Head(lists).items \o ListItems(Tail(lists))

\* Variant: the headings are taken in document order of the page, h2 before
\* h1 when the key order of the dictionary is not kept.
StructuredText_HeadingsReversed(d) ==
    JoinLines(
        (IF d.title # <<>>
         THEN <<<<"T", "i", "t", "l", "e", ":", " ">> \o d.title>> ELSE <<>>)
        \o (IF d.meta_description # <<>>
            THEN <<<<"D", "e", "s", "c", "r", "i", "p", "t", "i", "o", "n", ":", " ">>
                   \o d.meta_description>>
            ELSE <<>>)
        \o HeadingLines(d, "h3") \o HeadingLines(d, "h2") \o HeadingLines(d, "h1")
        \o d.paragraphs
        \o ListItems(d.lists))

\* content_text of a bundle: the title and description lines when these
\* fields are not empty, the heading lines level by level in the order of
\* the keys of dom_data['headings'], the paragraphs, the list items.
StructuredText(d) ==
    JoinLines(
        (IF d.title # <<>>
         THEN <<<<"T", "i", "t", "l", "e", ":", " ">> \o d.title>> ELSE <<>>)
        \o (IF d.meta_description # <<>>
            THEN <<<<"D", "e", "s", "c", "r", "i", "p", "t", "i", "o", "n", ":", " ">>
                   \o d.meta_description>>
            ELSE <<>>)
        \o HeadingLines(d, "h1") \o HeadingLines(d, "h2") \o HeadingLines(d, "h3")
        \o d.paragraphs
        \o ListItems(d.lists))

RECURSIVE CollapseWhitespace(_)
\* re.sub(r'\s+', ' ', text): every run of whitespace becomes one space
CollapseWhitespace(t) ==
    IF t = <<>> THEN <<>>
    ELSE IF Head(t) \notin Whitespace
         THEN <<Head(t)>> \o CollapseWhitespace(Tail(t))
    ELSE IF Len(t) >= 2 /\ t[2] \in Whitespace
         THEN CollapseWhitespace(Tail(t))
    ELSE <<" ">> \o CollapseWhitespace(Tail(t))

\* re.sub(r'\s+', ' ', content_text).strip()
NormalizeWhitespace(t) == Strip(CollapseWhitespace(t))

\* separators=["\n\n", "\n", ". ", "! ", "? ", " ", ""]
Separators ==
    << <<"\n", "\n">>, <<"\n">>, <<".", " ">>, <<"!", " ">>, <<"?", " ">>,
       <<" ">>, <<>> >>

\* re.search(re.escape(sep), t)
Occurs(sep, t) ==
    \E i \in 1..(Len(t) - Len(sep) + 1) : SubSeq(t, i, i + Len(sep) - 1) = sep

\* Variant: the list of separators is not gone through, the empty separator
\* at its end is taken.
SeparatorIndex_AlwaysLast(t, seps) == Len(seps)

\* The separator _split_text settles on: the first that is empty or occurs
\* in the text, as its position in seps.
SeparatorIndex(t, seps) ==
    LET fits(i) == seps[i] = <<>> \/ Occurs(seps[i], t)
    IN  IF \E i \in 1..Len(seps) : fits(i)
        THEN CHOOSE i \in 1..Len(seps) : fits(i) /\ \A j \in 1..(i - 1) : ~fits(j)
        ELSE Len(seps)

RECURSIVE Cuts(_, _, _)
\* Where the matches of re.split(sep) start, from i on, left to right and
\* without overlap.
Cuts(t, sep, i) ==
    IF i + Len(sep) - 1 > Len(t) THEN <<>>
    ELSE IF SubSeq(t, i, i + Len(sep) - 1) = sep
         THEN <<i>> \o Cuts(t, sep, i + Len(sep))
    ELSE Cuts(t, sep, i + 1)

\* Variant: keep_separator=False, the separators are left out of the pieces.
SplitTextWithRegex_DropSeparator(piece, sep) ==
    LET t == piece.s
        cuts == IF sep = <<>> THEN Idx(2, Len(t)) ELSE Cuts(t, sep, 1)
        starts == <<1 - Len(sep)>> \o cuts
        stop(k) == IF k = Len(starts) THEN Len(t) ELSE starts[k + 1] - 1
        all == [k \in 1..Len(starts) |->
                   [at |-> piece.at + starts[k] + Len(sep) - 1,
                    s |-> SubSeq(t, starts[k] + Len(sep), stop(k))]]
    IN  SelectSeq(all, LAMBDA q : q.s # <<>>)

\* _split_text_with_regex(text, separator, keep_separator=True): the text
\* is cut before every match of the separator (before every character for
\* the empty separator); empty pieces are dropped.
SplitTextWithRegex(piece, sep) ==
    LET t == piece.s
        cuts == IF sep = <<>> THEN Idx(2, Len(t)) ELSE Cuts(t, sep, 1)
        starts == <<1>> \o cuts
        stop(k) == IF k = Len(starts) THEN Len(t) ELSE starts[k + 1] - 1
        all == [k \in 1..Len(starts) |->
                   [at |-> piece.at + starts[k] - 1,
                    s |-> SubSeq(t, starts[k], stop(k))]]
    IN  SelectSeq(all, LAMBDA q : q.s # <<>>)

RECURSIVE Joined(_)
\* "".join(docs)
Joined(docs) ==
    IF docs = <<>> THEN <<>> ELSE Head(docs).s \o Joined(Tail(docs))

\* _join_docs(docs, ""): the joined text stripped; nothing when that is
\* empty.
JoinDocs(docs) ==
    LET text == Joined(docs)
        lead == CHOOSE n \in 0..Len(text) :
                    /\ \A j \in 1..n : text[j] \in Whitespace
                    /\ n < Len(text) => text[n + 1] \notin Whitespace
    IN  IF Strip(text) = <<>> THEN <<>>
        ELSE <<[at |-> docs[1].at + lead, s |-> Strip(text)]>>

RECURSIVE Shrink(_, _, _, _, _)
\* Variant: nothing is taken off the front of current_doc after a chunk
\* was emitted.
Shrink_Never(current_doc, total, len, size, overlap) ==
    [current_doc |-> current_doc, total |-> total]

\* The while loop of _merge_splits: pieces leave the front of current_doc
\* until what stays is no longer than the overlap and the next piece fits.
Shrink(current_doc, total, len, size, overlap) ==
    IF total > overlap \/ (total + len > size /\ total > 0)
    THEN Shrink(Tail(current_doc), total - Len(Head(current_doc).s), len,
                size, overlap)
    ELSE [current_doc |-> current_doc, total |-> total]

RECURSIVE MergeFrom(_, _, _, _, _, _, _)
\* The for loop of _merge_splits from the k-th piece on, and the final join.
MergeFrom(splits, k, docs, current_doc, total, size, overlap) ==
    IF k > Len(splits) THEN docs \o JoinDocs(current_doc)
    ELSE LET d == splits[k]
             len == Len(d.s)
             emit == total + len > size /\ current_doc # <<>>
             kept == IF emit THEN Shrink(current_doc, total, len, size, overlap)
                     ELSE [current_doc |-> current_doc, total |-> total]
         IN  MergeFrom(splits, k + 1,
                       IF emit THEN docs \o JoinDocs(current_doc) ELSE docs,
                       Append(kept.current_doc, d), kept.total + len,
                       size, overlap)

\* Variant: all pieces are joined into one chunk.
MergeSplits_OneChunk(splits, size, overlap) == JoinDocs(splits)

\* _merge_splits(splits, "")
MergeSplits(splits, size, overlap) ==
    MergeFrom(splits, 1, <<>>, <<>>, 0, size, overlap)

RECURSIVE SplitText(_, _, _, _)
RECURSIVE SplitLoop(_, _, _, _, _, _, _)
\* The for loop of _split_text from the k-th piece on, and the final merge
\* of _good_splits.
SplitLoop(splits, k, final_chunks, good_splits, new_separators, size, overlap) ==
    LET merged == IF good_splits # <<>>
                  THEN MergeSplits(good_splits, size, overlap) ELSE <<>>
    IN  IF k > Len(splits) THEN final_chunks \o merged
        ELSE IF Len(splits[k].s) < size
             THEN SplitLoop(splits, k + 1, final_chunks,
                            Append(good_splits, splits[k]), new_separators,
                            size, overlap)
        ELSE SplitLoop(splits, k + 1,
                       final_chunks \o merged
                         \o (IF new_separators = <<>> THEN <<splits[k]>>
                             ELSE SplitText(splits[k], new_separators, size,
                                            overlap)),
                       <<>>, new_separators, size, overlap)

\* _split_text(text, separators)
SplitText(piece, seps, size, overlap) ==
    LET i == SeparatorIndex(piece.s, seps)
        new_separators == IF seps[i] = <<>> THEN <<>>
                          ELSE SubSeq(seps, i + 1, Len(seps))
    IN  SplitLoop(SplitTextWithRegex(piece, seps[i]), 1, <<>>, <<>>,
                  new_separators, size, overlap)

\* text_splitter.split_text(content_text)
split_text(t, size, overlap) ==
    SplitText([at |-> 1, s |-> t], Separators, size, overlap)

----------------------------------------------------------------------------
\* parse_dom_content called on its own

\* Pieces of markup pages are put together from. A run that an e-mail or
\* phone pattern can match always stands between whitespace runs.
Fragments ==
    { <<ErrorMarker, " ", "oops">>,
      <<"<title>", " ", "T", " ", "</title>">>,
      <<"<title>", "</title>">>,
      <<"<meta name=description content=D>">>,
      <<"<h1>", "H", "</h1>">>,
      <<"<a href=/x>", "go", "</a>">>,
      <<"<a href=/x>", " ", "</a>">>,
      <<"<a href=//b/x>", "go", "</a>">>,
      <<"<a href=https://a/x>", "go", "</a>">>,
      <<"<a href=https://a:8/x>", "go", "</a>">>,
      <<"<a href=https://b/x>", "go", "</a>">>,
      <<"<a href=mailto:m>", "go", "</a>">>,
      <<"<img src=i.png>">>,
      <<"<img src=https://b/i.png title=t>">>,
      <<"<img src=''>">>,
      <<"<p>", " ", "a@b.co", " ", "A@b.co", " ", "a@b.co", " ", "</p>">>,
      <<"<p>", " ", "5551234567", " ", "fax+1-5551234567", " ",
        "tel(555) 123-4567", " ", "</p>">>,
      <<"<ul>", "<li>", "one", "</li>", "<li>", "two", "</li>", "</ul>">>,
      <<"<table>", "<tr>", "<td>", "A", "</td>", "<td>", "B", "</td>", "</tr>",
        "</table>">>,
      <<"<table>", "<tr>", "</tr>", "<tr>", "<th>", "A", "</th>", "</tr>",
        "</table>">>,
      <<"<table>", "<tr>", "</tr>", "</table>">>,
      <<"<table>", "<tr>", "<td>", "A", "<table>", "<tr>", "<td>", "B",
        "</td>", "</tr>", "</table>", "</td>", "</tr>", "</table>">>,
      <<"<form action=/go method=post>",
        "<input type=text name=q placeholder=find required>", "<input>",
        "</form>">>,
      <<"<form action=https://b/go>", "<textarea name=t>", "</textarea>",
        "</form>">>,
      <<"<form>", "<select name=s required>", "</select>", "</form>">> }

RECURSIVE PagesOf(_)
\* The pages made of exactly n fragments.
PagesOf(n) ==
    IF n = 0 THEN {<<>>}
    ELSE {f \o rest : f \in Fragments, rest \in PagesOf(n - 1)}

Pages == UNION {PagesOf(n) : n \in 0..MaxFragments}

\* Well-formed absolute page URLs: bare host, host with a path, host with a
\* port.
BaseUrls ==
    { HttpsPrefix \o <<"a">>,
      HttpsPrefix \o <<"a", "/", "d", "/", "p">>,
      HttpsPrefix \o <<"a", ":", "8", "/">> }

InitExtract ==
    /\ FetchIdle
    /\ PairOff
    /\ UiOff
    /\ ChunkOff
    /\ AnalyzeOff
    /\ xpc = "called"
    /\ html_content \in Pages
    /\ base_url \in BaseUrls
    /\ soup_built = FALSE
    /\ dom_data = NoneVal

\* parse_dom_content, the guard: return None, or go on to build the soup.
ParseDomGuard ==
    /\ xpc = "called"
    /\ IF GuardRejects(html_content)
       THEN /\ xpc' = "returned"
            /\ UNCHANGED soup_built
       ELSE /\ xpc' = "parsing"
            /\ soup_built' = TRUE
    /\ UNCHANGED <<html_content, base_url, dom_data>>
    /\ UNCHANGED exceptExtract

\* parse_dom_content, the try block and its handler.
ParseDomBuild ==
    /\ xpc = "parsing"
    /\ dom_data' = parse_dom_content(html_content, base_url)
    /\ xpc' = "returned"
    /\ UNCHANGED <<html_content, base_url, soup_built>>
    /\ UNCHANGED exceptExtract

NextExtract == ParseDomGuard \/ ParseDomBuild

SpecExtract == InitExtract /\ [][NextExtract]_vars

----------------------------------------------------------------------------
\* create_content_chunks called on its own, with a markup string

ChunkAlphabet == {"a", ".", " ", "\n"}

RECURSIVE TextsOf(_)
\* The texts of exactly n characters.
TextsOf(n) ==
    IF n = 0 THEN {<<>>}
    ELSE {<<c>> \o rest : c \in ChunkAlphabet, rest \in TextsOf(n - 1)}

\* What may stand before the text: nothing, a script or a style element.
ScriptParts ==
    {<<>>, <<"<script>", "x", "</script>">>, <<"<style>", "x", "</style>">>}

ChunkInputs ==
    {pre \o t : pre \in ScriptParts, t \in UNION {TextsOf(n) : n \in 0..MaxLen}}

\* Pieces of markup whose text runs are single characters, for the pages of
\* the bundles.
BundleFragments ==
    { <<ErrorMarker, " ", "x">>,
      <<"<title>", "T", "</title>">>,
      <<"<title>", " ", "</title>">>,
      <<"<title>", "</title>">>,
      <<"<meta name=description content=D>">>,
      <<"<h1>", "H", "</h1>">>,
      <<"<h2>", "G", "</h2>">>,
      <<"<h3>", "</h3>">>,
      <<"<p>", "a", " ", "b", "</p>">>,
      <<"<ul>", "<li>", "x", "</li>", "<li>", "y", "</li>", "</ul>">>,
      <<"<table>", "<tr>", "<td>", "c", "</td>", "</tr>", "</table>">>,
      <<"<a href=/x>", "k", "</a>">> }

RECURSIVE BundlePagesOf(_)
\* The pages made of exactly n of these fragments.
BundlePagesOf(n) ==
    IF n = 0 THEN {<<>>}
    ELSE {f \o rest : f \in BundleFragments, rest \in BundlePagesOf(n - 1)}

\* The bundles scrape_website(url, parse_dom=True) returns: the markup is
\* never empty, and dom_data is what parse_dom_content made of it.
Bundles ==
    LET u == HttpsPrefix \o <<"a">>
    IN  {DictVal(m, parse_dom_content(m, u), u) :
            m \in UNION {BundlePagesOf(n) : n \in 1..MaxFragments}}

InitChunk ==
    /\ FetchIdle
    /\ PairOff
    /\ UiOff
    /\ ExtractOff
    /\ AnalyzeOff
    /\ cpc = "called"
    /\ content \in {StrVal(m) : m \in ChunkInputs} \cup Bundles
    /\ chunk_size \in 2..MaxSize
    /\ chunk_overlap \in 1..(chunk_size - 1)
    /\ content_text = <<>>
    /\ chunks = <<>>
    /\ separator = 0
    /\ chunk_raised = FALSE

\* The conversion of content to text: the structured branch (where a
\* dom_data of None raises TypeError at the first subscript, and nothing in
\* the function catches it), the markup branch (soup, decompose, get_text)
\* and str(content) for anything else.
ChunkCleanText ==
    /\ cpc = "called"
    /\ IF content.type = "dict" /\ content.dom_data = NoneVal
       THEN /\ chunk_raised' = TRUE
            /\ cpc' = "raised"
            /\ UNCHANGED content_text
       ELSE /\ content_text' =
                  IF content.type = "dict" THEN StructuredText(content.dom_data)
                  ELSE IF content.type = "str" THEN ContentText(content.s)
                  ELSE <<"N", "o", "n", "e">>
            /\ cpc' = "cleaned"
            /\ UNCHANGED chunk_raised
    /\ UNCHANGED <<content, chunk_size, chunk_overlap, chunks, separator>>
    /\ UNCHANGED exceptChunk

\* content_text = re.sub(r'\s+', ' ', content_text).strip()
ChunkNormalize ==
    /\ cpc = "cleaned"
    /\ content_text' = NormalizeWhitespace(content_text)
    /\ cpc' = "normalized"
    /\ UNCHANGED <<content, chunk_size, chunk_overlap, chunks, separator,
                   chunk_raised>>
    /\ UNCHANGED exceptChunk

\* The splitter is built and chunks = text_splitter.split_text(content_text)
\* is returned.
ChunkSplit ==
    /\ cpc = "normalized"
    /\ separator' = SeparatorIndex(content_text, Separators)
    /\ chunks' = split_text(content_text, chunk_size, chunk_overlap)
    /\ cpc' = "returned"
    /\ UNCHANGED <<content, chunk_size, chunk_overlap, content_text,
                   chunk_raised>>
    /\ UNCHANGED exceptChunk

NextChunk == ChunkCleanText \/ ChunkNormalize \/ ChunkSplit

SpecChunk == InitChunk /\ [][NextChunk]_vars

----------------------------------------------------------------------------
\* analyze_content_with_llm called on its own

\* The length from which chunk_preview is cut.
PreviewLen == 200

\* The prompts dictionary.
Prompts ==
    [summarize |-> "Summarize the following content in 2-3 sentences, focusing on the main points:",
     extract_key_info |-> "Extract the most important information, key facts, and main topics from this content:",
     analyze_sentiment |-> "Analyze the sentiment and tone of this content. Is it positive, negative, or neutral? Explain:",
     find_contacts |-> "Find any contact information, company names, or important details from this content:",
     extract_topics |-> "What are the main topics and themes discussed in this content? List them:",
     generate_questions |-> "Generate 3-5 relevant questions that this content answers:",
     critique |-> "Provide a brief critique or analysis of this content - what's good, what could be improved:",
     keywords |-> "Extract the main keywords and important terms from this content:"]

\* Values a caller passes as analysis_type: the keys of prompts, a label
\* that is none of them, and the empty label.
AnalysisTypes == DOMAIN Prompts \cup {"translate", ""}

\* Variant: a label that is no key of prompts gets the prompt that follows
\* "summarize" in the dictionary.
PromptTemplate_WrongDefault(label) ==
    IF label \in DOMAIN Prompts THEN Prompts[label]
    ELSE Prompts["extract_key_info"]

\* prompts.get(analysis_type, prompts["summarize"])
PromptTemplate(label) ==
    IF label \in DOMAIN Prompts THEN Prompts[label] ELSE Prompts["summarize"]

\* f"{prompt_template}\n\n{chunk}\n\nAnalysis:"
FullPrompt(template, chunk) ==
    <<template, "\n", "\n">> \o chunk \o <<"\n", "\n", "Analysis:">>

\* chunk[:200] + "..." if len(chunk) > 200 else chunk
ChunkPreview(chunk) ==
    IF Len(chunk) > PreviewLen
    THEN SubSeq(chunk, 1, PreviewLen) \o <<"...">>
    ELSE chunk

\* The record appended for the chunk at position k (counted from 1).
ChunkRecord(k, chunk, analysis) ==
    [chunk_id |-> k,
     chunk_preview |-> ChunkPreview(chunk),
     analysis |-> analysis,
     chunk_length |-> Len(chunk)]

\* What OllamaLLM(...) and llm.invoke(...) can raise, all subclasses of
\* Exception.
LlmFaults == {"ConnectionError", "ResponseError"}

\* What llm.invoke returns when it returns.
LlmResponses == {<<"fine">>, <<" ", "fine", "\n">>}

\* The chunks a caller passes.
ChunkStrings == {<<"a">>, <<"a", " ", "b">>}

RECURSIVE ChunkListsOf(_)
\* The lists of exactly n chunks.
ChunkListsOf(n) ==
    IF n = 0 THEN {<<>>}
    ELSE {<<c>> \o rest : c \in ChunkStrings, rest \in ChunkListsOf(n - 1)}

ChunkLists == UNION {ChunkListsOf(n) : n \in 0..MaxChunks}

InitAnalyze ==
    /\ FetchIdle
    /\ PairOff
    /\ UiOff
    /\ ExtractOff
    /\ ChunkOff
    /\ apc = "called"
    /\ an_chunks \in ChunkLists
    /\ analysis_type \in AnalysisTypes
    /\ llm = "none"
    /\ an_i = 0
    /\ results = <<>>
    /\ an_ret = NoneVal
    /\ invoked = <<>>
    /\ outcomes = <<>>
    /\ an_raised = FALSE

\* Variant: the construction of the service stands outside the try block.
AnalyzeConstruct_Unguarded ==
    /\ apc = "called"
    /\ \E f \in {NoFault} \cup LlmFaults :
         IF f = NoFault
         THEN /\ llm' = "ready"
              /\ apc' = "loop"
              /\ UNCHANGED <<an_ret, an_raised>>
         ELSE /\ llm' = "failed"
              /\ an_raised' = TRUE
              /\ apc' = "returned"
              /\ UNCHANGED an_ret
    /\ UNCHANGED <<an_chunks, analysis_type, an_i, results, invoked, outcomes>>
    /\ UNCHANGED exceptAnalyze

\* llm = OllamaLLM(model=model_name) inside the outer try; its handler
\* returns one record with the key 'error'.
AnalyzeConstruct ==
    /\ apc = "called"
    /\ \E f \in {NoFault} \cup LlmFaults :
         IF f = NoFault
         THEN /\ llm' = "ready"
              /\ apc' = "loop"
              /\ UNCHANGED an_ret
         ELSE /\ llm' = "failed"
              /\ an_ret' = ListVal(<<[error |-> <<"LLM analysis failed: ", f>>]>>)
              /\ apc' = "returned"
    /\ UNCHANGED <<an_chunks, analysis_type, an_i, results, invoked, outcomes,
                   an_raised>>
    /\ UNCHANGED exceptAnalyze

\* Variant: without the inner try a fault of llm.invoke reaches the outer
\* handler, which returns the one error record.
AnalyzeChunk_NoInnerTry ==
    /\ apc = "loop"
    /\ an_i < Len(an_chunks)
    /\ LET chunk == an_chunks[an_i + 1]
           full_prompt == FullPrompt(PromptTemplate(analysis_type), chunk)
       IN  /\ invoked' = Append(invoked, full_prompt)
           /\ \/ \E answer \in LlmResponses :
                   /\ outcomes' = Append(outcomes, "answer")
                   /\ results' = Append(results,
                                        ChunkRecord(an_i + 1, chunk, Strip(answer)))
                   /\ an_i' = an_i + 1
                   /\ UNCHANGED <<apc, an_ret>>
              \/ \E f \in LlmFaults :
                   /\ outcomes' = Append(outcomes, f)
                   /\ an_ret' = ListVal(<<[error |-> <<"LLM analysis failed: ", f>>]>>)
                   /\ apc' = "returned"
                   /\ UNCHANGED <<results, an_i>>
    /\ UNCHANGED <<an_chunks, analysis_type, llm, an_raised>>
    /\ UNCHANGED exceptAnalyze

\* One turn of `for i, chunk in enumerate(chunks)`: the prompt is built,
\* llm.invoke is called, and a record is appended, with the stripped
\* answer or, from the inner handler, with the error string.
AnalyzeChunk ==
    /\ apc = "loop"
    /\ an_i < Len(an_chunks)
    /\ LET chunk == an_chunks[an_i + 1]
           full_prompt == FullPrompt(PromptTemplate(analysis_type), chunk)
       IN  /\ invoked' = Append(invoked, full_prompt)
           /\ \/ \E answer \in LlmResponses :
                   /\ outcomes' = Append(outcomes, "answer")
                   /\ results' = Append(results,
                                        ChunkRecord(an_i + 1, chunk, Strip(answer)))
              \/ \E f \in LlmFaults :
                   /\ outcomes' = Append(outcomes, f)
                   /\ results' = Append(results,
                                        ChunkRecord(an_i + 1, chunk,
                                                    <<"Error processing this chunk: ", f>>))
    /\ an_i' = an_i + 1
    /\ UNCHANGED <<apc, an_chunks, analysis_type, llm, an_ret, an_raised>>
    /\ UNCHANGED exceptAnalyze

\* The loop is through: return results
AnalyzeReturn ==
    /\ apc = "loop"
    /\ an_i = Len(an_chunks)
    /\ an_ret' = ListVal(results)
    /\ apc' = "returned"
    /\ UNCHANGED <<an_chunks, analysis_type, llm, an_i, results, invoked,
                   outcomes, an_raised>>
    /\ UNCHANGED exceptAnalyze

NextAnalyze == AnalyzeConstruct \/ AnalyzeChunk \/ AnalyzeReturn

SpecAnalyze == InitAnalyze /\ [][NextAnalyze]_vars

----------------------------------------------------------------------------
\* Two calls of scrape_website interleaved. Every name the function and the
\* two strategies assign is a local of the call; the browser sessions are
\* the only things outside the calls.

PairUrls == {<<"a", ".", "b">>, HttpsPrefix \o <<"a">>}

PairBodies == {PlainPage, EmptyBody}

PairMarkup == {PlainPage, TitledPage}

\* A browser session as webdriver.Chrome(...) starts it.
NewSession(t) ==
    [owner |-> t, doc |-> NoneVal, open |-> TRUE, used_by |-> {t}]

\* Variant: `driver` is one module-level name, bound to the browser launched
\* last.
DriverOf_ModuleLevel(t) == Len(sessions)

\* The local `driver` of the call t.
DriverOf(t) == thread[t].driver

\* The call t uses its driver.
Touch(t) ==
    [sessions EXCEPT ![DriverOf(t)].used_by = @ \cup {t}]

\* scrape_website, entry: the empty-input guard and the normalisation
PairCall(t, u, pd) ==
    /\ thread[t].pc = "idle"
    /\ thread' = [thread EXCEPT ![t] =
          IF IsEmptyInput(u)
          THEN [@ EXCEPT !.pc = "done", !.in_url = u, !.parse_dom = pd,
                         !.website = u, !.ret = EmptyInputOutcome]
          ELSE [@ EXCEPT !.pc = "requests", !.in_url = u, !.parse_dom = pd,
                         !.website = Normalize(u)]]
    /\ UNCHANGED sessions
    /\ UNCHANGED exceptPair

\* scrape_with_requests, whole, and the fallback test of scrape_website
PairRequests(t) ==
    /\ thread[t].pc = "requests"
    /\ \E got \in {StrVal(body) : body \in PairBodies} \cup {NoneVal} :
          thread' = [thread EXCEPT ![t] =
              [@ EXCEPT !.a = IF got = NoneVal THEN [type |-> "fault"] ELSE got,
                        !.html = got,
                        !.pc = IF ShouldFallback(got) THEN "launch"
                               ELSE "finish"]]
    /\ UNCHANGED sessions
    /\ UNCHANGED exceptPair

\* The handler of scrape_with_selenium: return None.
PairHandler(t) ==
    thread' = [thread EXCEPT ![t] =
                  [@ EXCEPT !.b = "failure", !.html = NoneVal, !.pc = "finish"]]

\* driver = webdriver.Chrome(...): a browser of its own, or a fault
PairLaunch(t) ==
    /\ thread[t].pc = "launch"
    /\ \/ /\ sessions' = Append(sessions, NewSession(t))
          /\ thread' = [thread EXCEPT ![t] =
                 [@ EXCEPT !.driver = Len(sessions) + 1, !.pc = "stealth"]]
       \/ /\ PairHandler(t)
          /\ UNCHANGED sessions
    /\ UNCHANGED exceptPair

\* driver.execute_script(...); a closed session raises.
PairStealth(t) ==
    /\ thread[t].pc = "stealth"
    /\ sessions' = Touch(t)
    /\ \/ /\ sessions[DriverOf(t)].open
          /\ thread' = [thread EXCEPT ![t].pc = "navigate"]
       \/ PairHandler(t)
    /\ UNCHANGED exceptPair

\* driver.get(website): the session loads what the site serves this call.
PairGet(t) ==
    /\ thread[t].pc = "navigate"
    /\ \/ /\ sessions[DriverOf(t)].open
          /\ \E m \in PairMarkup :
               /\ sessions' = [Touch(t) EXCEPT ![DriverOf(t)].doc = StrVal(m)]
               /\ thread' = [thread EXCEPT ![t] =
                      [@ EXCEPT !.loaded = StrVal(m), !.pc = "source"]]
       \/ /\ sessions' = Touch(t)
          /\ PairHandler(t)
    /\ UNCHANGED exceptPair

\* html = driver.page_source
PairPageSource(t) ==
    /\ thread[t].pc = "source"
    /\ sessions' = Touch(t)
    /\ \/ /\ sessions[DriverOf(t)].open
          /\ thread' = [thread EXCEPT ![t] =
                 [@ EXCEPT !.html = sessions[DriverOf(t)].doc, !.pc = "quit"]]
       \/ PairHandler(t)
    /\ UNCHANGED exceptPair

\* driver.quit(); return html
PairQuit(t) ==
    /\ thread[t].pc = "quit"
    /\ sessions' = [Touch(t) EXCEPT ![DriverOf(t)].open = FALSE]
    /\ thread' = [thread EXCEPT ![t] = [@ EXCEPT !.b = "success", !.pc = "finish"]]
    /\ UNCHANGED exceptPair

\* scrape_website, tail: `if html:` ... return
PairFinish(t) ==
    /\ thread[t].pc = "finish"
    /\ thread' = [thread EXCEPT ![t] =
           [@ EXCEPT !.ret = Outcome(thread[t].html, thread[t].parse_dom,
                                     thread[t].website),
                     !.pc = "done"]]
    /\ UNCHANGED sessions
    /\ UNCHANGED exceptPair

InitPair ==
    /\ FetchIdle
    /\ ExtractOff
    /\ ChunkOff
    /\ AnalyzeOff
    /\ PairOff
    /\ UiOff

NextPair ==
    \/ \E t \in Threads, u \in PairUrls \cup {<<>>}, pd \in BOOLEAN :
          PairCall(t, u, pd)
    \/ \E t \in Threads : PairRequests(t)
    \/ \E t \in Threads : PairLaunch(t)
    \/ \E t \in Threads : PairStealth(t)
    \/ \E t \in Threads : PairGet(t)
    \/ \E t \in Threads : PairPageSource(t)
    \/ \E t \in Threads : PairQuit(t)
    \/ \E t \in Threads : PairFinish(t)

SpecPair == InitPair /\ [][NextPair]_vars

----------------------------------------------------------------------------
\* The main page (app.py): the script runs from its top on every user
\* event and on st.rerun(); widgets keep their values between runs, a
\* button is True only in the run its click started, st.session_state
\* lasts for the browser session.

\* example_urls; of the seven examples two are kept.
example_urls ==
    [o \in {NoExample, "Quotes", "Books"} |->
        CASE o = NoExample -> <<>>
          [] o = "Quotes" -> HttpsPrefix \o <<"quotes.toscrape.com">>
          [] o = "Books" -> HttpsPrefix \o <<"books.toscrape.com">>]

\* What a user types into the text input.
TypedUrls == {<<>>, <<"a", ".", "b">>, HttpsPrefix \o <<"a">>}

\* What scrape_website(url) returns: the message for the empty URL, or the
\* value its tail makes of the markup the strategies came back with (a
\* non-empty body, the browser's page source, or None).
ScrapeResults(u) ==
    IF IsEmptyInput(u) THEN {EmptyInputOutcome}
    ELSE {Outcome(h, FALSE, Normalize(u)) :
             h \in {NoneVal} \cup {StrVal(b) : b \in ResponseBodies \ {EmptyBody}}}

\* A user event starts a run of the script.
UserTypes(u) ==
    /\ ui_pc = "waiting"
    /\ u # typed_url
    /\ typed_url' = u
    /\ scrape_clicked' = FALSE
    /\ ui_pc' = "init"
    /\ UNCHANGED <<scraped_content, dom_visible, selected_example, ui_url,
                   ui_result, ui_shown>>
    /\ UNCHANGED exceptUi

\* The select box takes input also while the script is running; the run
\* under way is dropped and a new one starts.
UserSelects(o) ==
    /\ ui_pc \in {"waiting", "init", "input", "select"}
    /\ o # selected_example
    /\ selected_example' = o
    /\ scrape_clicked' = FALSE
    /\ ui_pc' = "init"
    /\ UNCHANGED <<scraped_content, dom_visible, typed_url, ui_url, ui_result,
                   ui_shown>>
    /\ UNCHANGED exceptUi

UserClicksScrape ==
    /\ ui_pc = "waiting"
    /\ scrape_clicked' = TRUE
    /\ ui_pc' = "init"
    /\ UNCHANGED <<scraped_content, dom_visible, typed_url, selected_example,
                   ui_url, ui_result, ui_shown>>
    /\ UNCHANGED exceptUi

\* The browser session opens: first run of the script.
UiOpen ==
    /\ ui_pc = "off"
    /\ ui_pc' = "init"
    /\ UNCHANGED <<scraped_content, dom_visible, typed_url, selected_example,
                   scrape_clicked, ui_url, ui_result, ui_shown>>
    /\ UNCHANGED exceptUi

\* if 'scraped_content' not in st.session_state: ... (both keys)
RunSessionInit ==
    /\ ui_pc = "init"
    /\ scraped_content' = IF scraped_content = NoneVal THEN StrVal(<<>>)
                          ELSE scraped_content
    /\ dom_visible' = IF dom_visible = NoneVal THEN [type |-> "bool", b |-> FALSE]
                      ELSE dom_visible
    /\ ui_shown' = "none"
    /\ ui_pc' = "input"
    /\ UNCHANGED <<typed_url, selected_example, scrape_clicked, ui_url,
                   ui_result>>
    /\ UNCHANGED exceptUi

\* url = st.text_input(...)
RunTextInput ==
    /\ ui_pc = "input"
    /\ ui_url' = typed_url
    /\ ui_pc' = "select"
    /\ UNCHANGED <<scraped_content, dom_visible, typed_url, selected_example,
                   scrape_clicked, ui_result, ui_shown>>
    /\ UNCHANGED exceptUi

\* selected_example = st.selectbox(...) and the `if` under it: with an
\* example selected url is assigned and st.rerun() starts the script again,
\* which drops the locals and the click.
RunSelectBox ==
    /\ ui_pc = "select"
    /\ IF selected_example # NoExample /\ example_urls[selected_example] # <<>>
       THEN /\ ui_url' = example_urls[selected_example]
            /\ scrape_clicked' = FALSE
            /\ ui_pc' = "init"
       ELSE /\ ui_pc' = "button"
            /\ UNCHANGED <<ui_url, scrape_clicked>>
    /\ UNCHANGED <<scraped_content, dom_visible, typed_url, selected_example,
                   ui_result, ui_shown>>
    /\ UNCHANGED exceptUi

\* Variant: the result is stored before it is tested for the marker.
RunScrapeButton_StoreFirst ==
    /\ ui_pc = "button"
    /\ IF scrape_clicked
       THEN IF ui_url # <<>>
            THEN \E r \in ScrapeResults(ui_url) :
                    /\ ui_result' = r
                    /\ scraped_content' = r
                    /\ dom_visible' = [type |-> "bool", b |-> TRUE]
                    /\ ui_shown' = IF HandlerTreatsAsFailure(r) THEN "error"
                                   ELSE "success"
            ELSE /\ ui_shown' = "warning"
                 /\ UNCHANGED <<ui_result, scraped_content, dom_visible>>
       ELSE UNCHANGED <<ui_result, scraped_content, dom_visible, ui_shown>>
    /\ ui_pc' = "rest"
    /\ UNCHANGED <<typed_url, selected_example, scrape_clicked, ui_url>>
    /\ UNCHANGED exceptUi

\* if st.button("Scrape Site"): the whole handler
RunScrapeButton ==
    /\ ui_pc = "button"
    /\ IF scrape_clicked
       THEN IF ui_url # <<>>
            THEN \E r \in ScrapeResults(ui_url) :
                    /\ ui_result' = r
                    /\ IF HandlerTreatsAsFailure(r)
                       THEN /\ ui_shown' = "error"
                            /\ UNCHANGED <<scraped_content, dom_visible>>
                       ELSE /\ ui_shown' = "success"
                            /\ scraped_content' = r
                            /\ dom_visible' = [type |-> "bool", b |-> TRUE]
            ELSE /\ ui_shown' = "warning"
                 /\ UNCHANGED <<ui_result, scraped_content, dom_visible>>
       ELSE UNCHANGED <<ui_result, scraped_content, dom_visible, ui_shown>>
    /\ ui_pc' = "rest"
    /\ UNCHANGED <<typed_url, selected_example, scrape_clicked, ui_url>>
    /\ UNCHANGED exceptUi

\* The rest of the script, from `if st.session_state.scraped_content:` on;
\* it reads scraped_content and dom_visible and writes neither. The run
\* ends and the page waits for the user.
RunRest ==
    /\ ui_pc = "rest"
    /\ ui_pc' = "waiting"
    /\ scrape_clicked' = FALSE
    /\ UNCHANGED <<scraped_content, dom_visible, typed_url, selected_example,
                   ui_url, ui_result, ui_shown>>
    /\ UNCHANGED exceptUi

InitUi ==
    /\ FetchIdle
    /\ ExtractOff
    /\ ChunkOff
    /\ AnalyzeOff
    /\ PairOff
    /\ UiOff

\* The steps of the script.
ScriptStep ==
    \/ RunSessionInit
    \/ RunTextInput
    \/ RunSelectBox
    \/ RunScrapeButton
    \/ RunRest

NextUi ==
    \/ UiOpen
    \/ \E u \in TypedUrls : UserTypes(u)
    \/ \E o \in DOMAIN example_urls : UserSelects(o)
    \/ UserClicksScrape
    \/ RunSessionInit
    \/ RunTextInput
    \/ RunSelectBox
    \/ RunScrapeButton
    \/ RunRest

\* A run of the script that has started goes on; the user need not act.
SpecUi == InitUi /\ [][NextUi]_vars /\ WF_vars(ScriptStep)

----------------------------------------------------------------------------
\* Vocabulary of the properties

Letters == {"a", "b", "f", "h", "p", "s", "t", "H", "P", "T"}

\* The URL opens with a scheme: letters, then "://".
HasScheme(u) ==
    \E i \in 2..(Len(u) - 2) :
        /\ u[i] = ":" /\ u[i + 1] = "/" /\ u[i + 2] = "/"
        /\ \A j \in 1..(i - 1) : u[j] \in Letters

IsStrategy(e) == e.fn \in {"A", "B"}

IsExtract(e) == e.fn = "extract"

IsLaunch(e) == e.fn = "launch"

\* The strategies the current call invoked, in order.
StrategyCalls ==
    LET sel == SelectSeq(trace, IsStrategy)
    IN  [i \in 1..Len(sel) |-> sel[i].fn]

ExtractCalls == SelectSeq(trace, IsExtract)

\* The call has reached its return statement (the handler may have run).
Returned == calls > 0 /\ pc \in {"done", "idle"}

\* The markup a returned value carries.
ResultMarkup(r) == IF r.type = "dict" THEN r.html ELSE r.s

----------------------------------------------------------------------------
\* Properties

\* C1: whenever Strategy B has returned, the browser session it launched
\* has been torn down, so no browser process is live once the fetch calls
\* have returned.
C1_NoLiveBrowserAfterReturn ==
    pc \in {"finish", "done", "idle"} => live = 0

\* C2: within one call the strategies invoked are A, or A then B, each at
\* most once; A is the first for a non-empty URL; B is invoked only after A
\* returned a failure.
C2_StrictFallbackChain ==
    /\ StrategyCalls \in {<<>>, <<"A">>, <<"A", "B">>}
    /\ (calls > 0 /\ in_url # <<>> /\ pc # "requests") => Len(StrategyCalls) >= 1
    /\ (Len(StrategyCalls) = 2) => aOutcome = "failure"

\* C3: when Strategy A received a response with a success status, whatever
\* its body, Strategy B is not invoked and the result carries A's body.
C3_SuccessOfANeverFallsBack ==
    aOutcome = "success" =>
        /\ StrategyCalls = <<"A">>
        /\ pc = "done" => ResultMarkup(ret) = response.s

\* C4: when Strategy A failed and Strategy B succeeded with markup m, the
\* call returns m, or the bundle holding m when parse_dom is set, and not a
\* failure sentinel.
C4_FallbackReturnsMarkupOfB ==
    (Returned /\ aOutcome = "failure" /\ bOutcome = "success") =>
        /\ ret # StrVal(AllFailedMessage)
        /\ ret # StrVal(EmptyUrlMessage)
        /\ IF parse_dom
           THEN ret.type = "dict" /\ ret.html = page.s
           ELSE ret = page

C4_Witness ==
    /\ pc = "done" /\ aOutcome = "failure" /\ bOutcome = "success"
    /\ parse_dom /\ ret.type = "dict" /\ ret.html = TitledPage

\* C5: when both strategies failed, the call returns the failure sentinel,
\* which begins with the error marker, no exception leaves the call and the
\* extractor is not invoked, whatever parse_dom is.
C5_BothFailReturnsSentinel ==
    (aOutcome = "failure" /\ bOutcome = "failure") =>
        /\ ~raised
        /\ pc \in {"finish", "done", "idle"}
        /\ ExtractCalls = <<>>
        /\ Returned => /\ ret = StrVal(AllFailedMessage)
                       /\ StartsWith(ret.s, <<ErrorMarker>>)

C5_Witness ==
    /\ pc = "done" /\ aOutcome = "failure" /\ bOutcome = "failure"
    /\ parse_dom /\ ret = StrVal(AllFailedMessage)

\* C6: a call with the empty URL returns a string that begins with the
\* error marker at once: no strategy is invoked, no browser is launched and
\* the URL is not turned into 'https://'.
C6_EmptyInputRejected ==
    (calls > 0 /\ in_url = <<>>) =>
        /\ Returned
        /\ ret.type = "str" /\ StartsWith(ret.s, <<ErrorMarker>>)
        /\ trace = <<>>
        /\ website # HttpsPrefix

C6_Witness ==
    calls > 0 /\ in_url = <<>> /\ pc = "done" /\ ret = StrVal(EmptyUrlMessage)

\* C7: for a non-empty URL, the URL handed to Strategy A, Strategy B and the
\* extractor and stored in the bundle is 'https://' + input when the input
\* has no scheme, and the input itself when it has one.
C7_SchemeKeptOrHttpsAdded ==
    (calls > 0 /\ in_url # <<>>) =>
        LET expected == IF HasScheme(in_url) THEN in_url
                        ELSE HttpsPrefix \o in_url
        IN  /\ website = expected
            /\ \A i \in 1..Len(trace) : trace[i].url = expected
            /\ (pc = "done" /\ ret.type = "dict") => ret.url = expected

\* C8: the returned value is a string beginning with the error marker
\* exactly when the fetch failed: the input was empty, or the fallback chain
\* ended with Strategy B failing.
C8_MarkerIffFailed ==
    pc = "done" =>
        (HandlerTreatsAsFailure(ret) <=> (in_url = <<>> \/ bOutcome = "failure"))

\* C9: when the strategy that ran last succeeded with markup m for the
\* normalised URL u: with parse_dom set the extractor is invoked exactly
\* once, on (m, u), and the bundle of m, the extractor's result and u is
\* returned; with parse_dom not set m alone is returned and the extractor is
\* not invoked.
C9_BundleOrMarkupAlone ==
    LET byB == bOutcome = "success"
        byA == aOutcome = "success" /\ bOutcome = "none"
        m == IF byB THEN page.s ELSE response.s
    IN  (Returned /\ (byA \/ byB)) =>
            IF parse_dom
            THEN /\ ExtractCalls = <<Event("extract", Normalize(in_url), m)>>
                 /\ ret = DictVal(m, parse_dom_content(m, Normalize(in_url)),
                                  Normalize(in_url))
            ELSE /\ ExtractCalls = <<>>
                 /\ ret = StrVal(m)

C9_Witness ==
    /\ pc = "done" /\ aOutcome = "success" /\ bOutcome = "none"
    /\ ~parse_dom /\ ret = StrVal(PlainPage) /\ ExtractCalls = <<>>

\* C10: no fault of either strategy leaves the call as an exception: the
\* strategy returns a failure value, and the call returns a string or a
\* bundle.
C10_NoExceptionEscapes ==
    /\ ~raised
    /\ pc # "raised"
    /\ (aOutcome = "failure" /\ pc \in {"launch", "finish"}) => response = NoneVal
    /\ (bOutcome = "failure" /\ pc = "finish") => html = NoneVal
    /\ Returned => ret.type \in {"str", "dict"}

C10_Witness ==
    /\ pc = "finish" /\ bOutcome = "failure" /\ html = NoneVal
    /\ \E i \in 1..Len(trace) : IsLaunch(trace[i])


----------------------------------------------------------------------------
\* Vocabulary of the properties about parse_dom_content

ExtractReturned == xpc = "returned"

ReturnedDocument == ExtractReturned /\ dom_data.type = "doc"

\* The markup is empty or begins with the error marker.
EmptyOrMarked(m) == m = <<>> \/ m[1] = ErrorMarker

\* A URL that carries its own scheme.
IsAbsolute(u) == urlsplit(u, <<>>).scheme # <<>>

\* The host of a URL: its authority without the port.
Host(u) ==
    LET n == Netloc(u)
        c == Find(n, ":")
    IN  IF c = 0 THEN n ELSE SubSeq(n, 1, c - 1)

\* The href values, as written, of the anchors whose links are stored (those
\* with an href and visible text), in document order.
StoredHrefs(m) ==
    LET stored(k) == HasAttr(m[k], "href") /\ Strip(GetText(m, k)) # <<>>
        at == SelectSeq(FindAll(m, 0, {"a"}), stored)
    IN  [k \in 1..Len(at) |-> Attrs(m[at[k]]).href]

\* An href as written that names neither a scheme nor an authority.
IsRelative(href) ==
    urlsplit(href, <<>>).scheme = <<>> /\ urlsplit(href, <<>>).netloc = <<>>

NoRepeats(seq) == \A i, j \in 1..Len(seq) : seq[i] = seq[j] => i = j

----------------------------------------------------------------------------
\* Properties of parse_dom_content

\* C11: for markup that is empty or begins with the error marker the call
\* returns None straight from the guard, no soup having been built; for every
\* other markup the soup is built.
C11_GuardReturnsNoneWithoutParsing ==
    xpc # "called" =>
        IF EmptyOrMarked(html_content)
        THEN ExtractReturned /\ ~soup_built /\ dom_data = NoneVal
        ELSE soup_built

C11_Witness ==
    /\ ExtractReturned
    /\ html_content # <<>>
    /\ html_content[1] = ErrorMarker
    /\ ~soup_built
    /\ dom_data = NoneVal

\* C12: for markup that is neither empty nor marked, the call returns a
\* document, whatever the title element holds.
C12_AlwaysADocument ==
    (ExtractReturned /\ ~EmptyOrMarked(html_content)) => dom_data.type = "doc"

\* C13: when reading the title fails, the call still returns a document
\* whose other fields hold what the markup gives.
C13_OnlyTheFailedFieldIsEmpty ==
    (ExtractReturned /\ soup_built /\ TitleStringIsNone(html_content)) =>
        /\ dom_data.type = "doc"
        /\ dom_data.meta_description = MetaDescription(html_content)
        /\ dom_data.headings.h1 = Headings(html_content, "h1")
        /\ dom_data.links = Links(html_content, base_url)
        /\ dom_data.images = Images(html_content, base_url)
        /\ dom_data.paragraphs = Paragraphs(html_content)
        /\ dom_data.lists = Lists(html_content)
        /\ dom_data.tables = Tables(html_content)
        /\ dom_data.forms = Forms(html_content)
        /\ dom_data.contact_info = ContactInfo(html_content)

\* C14: in a returned document every link url, every image src and every
\* form action written in the markup is stored as an absolute URL.
C14_AllStoredUrlsAbsolute ==
    ReturnedDocument =>
        /\ \A k \in 1..Len(dom_data.links) : IsAbsolute(dom_data.links[k].url)
        /\ \A k \in 1..Len(dom_data.images) : IsAbsolute(dom_data.images[k].src)
        /\ \A k \in 1..Len(dom_data.forms) :
               \/ dom_data.forms[k].action = <<>>
               \/ IsAbsolute(dom_data.forms[k].action)

\* C15: a stored link is external exactly when the host of its resolved URL
\* differs from the host of the base URL, and a relative href is never
\* external.
C15_ExternalIffHostDiffers ==
    ReturnedDocument =>
        /\ Len(dom_data.links) = Len(StoredHrefs(html_content))
        /\ \A k \in 1..Len(dom_data.links) :
               /\ dom_data.links[k].is_external
                    <=> Host(dom_data.links[k].url) # Host(base_url)
               /\ IsRelative(StoredHrefs(html_content)[k])
                    => ~dom_data.links[k].is_external

\* C16: in a returned document neither the e-mail list nor the phone list
\* holds a value twice, and each holds every match found in the page text.
C16_ContactListsWithoutRepeats ==
    ReturnedDocument =>
        LET text == GetText(html_content, 0)
            found == FindallPhones(1, text) \o FindallPhones(2, text)
                     \o FindallPhones(3, text)
        IN  /\ NoRepeats(dom_data.contact_info.emails)
            /\ NoRepeats(dom_data.contact_info.phones)
            /\ ToSet(dom_data.contact_info.emails) = ToSet(FindallEmails(text))
            /\ ToSet(dom_data.contact_info.phones) = ToSet(found)

\* A page where one address occurs twice and one number is matched in two
\* places.
C16_Witness ==
    /\ ReturnedDocument
    /\ ~NoRepeats(FindallEmails(GetText(html_content, 0)))
    /\ ~NoRepeats(FindallPhones(1, GetText(html_content, 0)))
    /\ Len(dom_data.contact_info.emails) = 2
    /\ Len(dom_data.contact_info.phones) = 3


----------------------------------------------------------------------------
\* Vocabulary of the properties about create_content_chunks

ChunkReturned == cpc = "returned"

\* The list the call returns.
ChunkTexts == [k \in 1..Len(chunks) |-> chunks[k].s]

\* The markup shows nothing but whitespace: every other text run lies in a
\* script or style element.
OnlyBlank(m) ==
    \A k \in 1..Len(m) :
        IsText(m[k]) => (m[k] \in Whitespace \/ InScriptOrStyle(m, k))

\* Position in the normalized text of the last character of the k-th chunk.
ChunkEnd(k) == chunks[k].at + Len(chunks[k].s) - 1

\* The k-th chunk is the stretch of the normalized text at its position.
IsStretch(k) ==
    chunks[k].s = SubSeq(content_text, chunks[k].at, ChunkEnd(k))

\* Number of characters the k-th chunk shares with the next one.
Shared(k) ==
    IF ChunkEnd(k) >= chunks[k + 1].at
    THEN ChunkEnd(k) - chunks[k + 1].at + 1 ELSE 0

\* The i-th character of the normalized text lies in some chunk.
Covered(i) ==
    \E k \in 1..Len(chunks) : chunks[k].at <= i /\ i <= ChunkEnd(k)

RECURSIVE RebuiltFrom(_)
\* The chunks from the k-th on, each without the characters it shares with
\* the chunk before it, concatenated.
RebuiltFrom(k) ==
    IF k > Len(chunks) THEN <<>>
    ELSE (IF k = 1 THEN chunks[k].s
          ELSE SubSeq(chunks[k].s, Shared(k - 1) + 1, Len(chunks[k].s)))
         \o RebuiltFrom(k + 1)

----------------------------------------------------------------------------
\* Properties of create_content_chunks

\* C17: for the empty string, and for markup that shows only whitespace or
\* only script and style content, the call returns the empty list.
C17_BlankInputGivesNoChunks ==
    (ChunkReturned /\ content.type = "str" /\ OnlyBlank(content.s)) =>
        chunks = <<>>

C17_Witness ==
    /\ ChunkReturned
    /\ content.type = "str"
    /\ OnlyBlank(content.s)
    /\ \E k \in 1..Len(content.s) : content.s[k] = "x"
    /\ \E k \in 1..Len(content.s) : content.s[k] \in Whitespace
    /\ chunks = <<>>

\* C18: every returned chunk is non-empty and no longer than chunk_size,
\* and the chunks follow the order of the normalized text: each is the
\* stretch of text at its position, and neither the positions nor the ends
\* ever go backward.
C18_ChunksBoundedAndInOrder ==
    ChunkReturned =>
        /\ \A k \in 1..Len(chunks) :
               /\ chunks[k].s # <<>>
               /\ Len(chunks[k].s) <= chunk_size
               /\ IsStretch(k)
        /\ \A k \in 1..(Len(chunks) - 1) :
               /\ chunks[k].at <= chunks[k + 1].at
               /\ ChunkEnd(k) <= ChunkEnd(k + 1)

C18_Witness ==
    /\ ChunkReturned
    /\ Len(chunks) >= 3
    /\ \E k \in 1..Len(chunks) : Len(chunks[k].s) = chunk_size
    /\ \E k \in 1..(Len(chunks) - 1) : Shared(k) > 0

\* C19 as stated: a non-empty normalized text no longer than chunk_size
\* comes back as one chunk equal to it; for a longer text the chunks
\* concatenated with the shared overlaps removed are the normalized text.
C19_RoundTripExact ==
    (ChunkReturned /\ content_text # <<>>) =>
        IF Len(content_text) <= chunk_size
        THEN ChunkTexts = <<content_text>>
        ELSE RebuiltFrom(1) = content_text

\* C19 amended: a non-empty normalized text no longer than chunk_size comes
\* back as one chunk equal to it; for a longer text every chunk is a stretch
\* of the normalized text, the first starts at its first character, the
\* last ends at its last character, and a character that lies in no chunk
\* is a space.
C19_RoundTripUpToBoundarySpaces ==
    (ChunkReturned /\ content_text # <<>>) =>
        IF Len(content_text) <= chunk_size
        THEN ChunkTexts = <<content_text>>
        ELSE /\ \A k \in 1..Len(chunks) : IsStretch(k)
             /\ chunks[1].at = 1
             /\ ChunkEnd(Len(chunks)) = Len(content_text)
             /\ \A i \in 1..Len(content_text) :
                    Covered(i) \/ content_text[i] = " "

C19_Witness ==
    /\ ChunkReturned
    /\ Len(content_text) > chunk_size
    /\ Len(chunks) >= 2
    /\ \E i \in 1..Len(content_text) : ~Covered(i)
    /\ \E k \in 1..(Len(chunks) - 1) : Shared(k) > 0

\* C20: the first chunk starts at the first character of the normalized
\* text and the last chunk ends at its last character; adjacent chunks
\* never share more than chunk_overlap characters, and share exactly
\* chunk_overlap characters when the text holds no space to split at.
C20_OverlapBetweenAdjacentChunks ==
    (ChunkReturned /\ chunks # <<>>) =>
        /\ chunks[1].at = 1
        /\ ChunkEnd(Len(chunks)) = Len(content_text)
        /\ \A k \in 1..(Len(chunks) - 1) :
               /\ Shared(k) <= chunk_overlap
               /\ ~Occurs(<<" ">>, content_text) => Shared(k) = chunk_overlap

C20_Witness ==
    /\ ChunkReturned
    /\ Len(chunks) >= 3
    /\ chunk_overlap >= 2
    /\ ~Occurs(<<" ">>, content_text)
    /\ \A k \in 1..(Len(chunks) - 1) : Shared(k) = chunk_overlap


----------------------------------------------------------------------------
\* Properties of analyze_content_with_llm

AnalyzeReturned == apc = "returned"

\* The prompt llm.invoke gets for a chunk under the label "summarize".
SummarizePrompt(chunk) ==
    <<Prompts["summarize"], "\n", "\n">> \o chunk \o <<"\n", "\n", "Analysis:">>

\* C21: when the service was constructed, the call invokes it once per
\* chunk in chunk order and returns one record per chunk with chunk_id
\* 1..n in order; a chunk whose invocation failed has its error string in
\* its own record, and the chunks after it are processed all the same.
C21_FailuresContainedPerChunk ==
    (AnalyzeReturned /\ llm = "ready") =>
        /\ ~an_raised
        /\ Len(invoked) = Len(an_chunks)
        /\ \A k \in 1..Len(invoked) :
               invoked[k] = FullPrompt(PromptTemplate(analysis_type), an_chunks[k])
        /\ an_ret.type = "list"
        /\ Len(an_ret.items) = Len(an_chunks)
        /\ \A k \in 1..Len(an_ret.items) :
               /\ DOMAIN an_ret.items[k]
                    = {"chunk_id", "chunk_preview", "analysis", "chunk_length"}
               /\ an_ret.items[k].chunk_id = k
               /\ an_ret.items[k].chunk_length = Len(an_chunks[k])
               /\ outcomes[k] \in LlmFaults
                    <=> an_ret.items[k].analysis
                          = <<"Error processing this chunk: ", outcomes[k]>>

C21_Witness ==
    /\ AnalyzeReturned
    /\ llm = "ready"
    /\ Len(an_chunks) = 3
    /\ outcomes[1] \in LlmFaults
    /\ outcomes[2] = "answer"
    /\ outcomes[3] \in LlmFaults
    /\ Len(an_ret.items) = 3

\* C30: no exception leaves the call and the value returned is a list;
\* when the service could not be constructed the list holds exactly one
\* record, which has the key 'error', and no chunk was processed; for a
\* label that is no key of prompts every invocation gets the prompt of
\* "summarize".
C30_NeverRaisesAndDefaultsToSummarize ==
    AnalyzeReturned =>
        /\ ~an_raised
        /\ an_ret.type = "list"
        /\ llm = "failed" =>
               /\ Len(an_ret.items) = 1
               /\ "error" \in DOMAIN an_ret.items[1]
               /\ invoked = <<>>
               /\ results = <<>>
        /\ analysis_type \notin DOMAIN Prompts =>
               \A k \in 1..Len(invoked) : invoked[k] = SummarizePrompt(an_chunks[k])

C30_Witness ==
    /\ AnalyzeReturned
    /\ llm = "failed"
    /\ Len(an_chunks) = 2
    /\ analysis_type = "translate"
    /\ Len(an_ret.items) = 1


----------------------------------------------------------------------------
\* More properties of parse_dom_content

\* Positions of the start tags named `name` between lo and hi, in order.
TagsBetween(m, name, lo, hi) ==
    SelectSeq(Idx(lo, hi), LAMBDA k : IsStart(m[k]) /\ TagName(m[k]) = name)

\* The text between the start tag at i and its end tag, trimmed.
TrimmedText(m, i) == Strip(GetText(m, i))

\* C23: for markup that is parsed, the title of the document is the trimmed
\* text of the first title element when there is one, and "No title found"
\* when there is none; in either case a document with a title is returned.
C23_TitleIsTextOrSentinel ==
    (ExtractReturned /\ soup_built) =>
        LET titles == TagsBetween(html_content, "title", 1, Len(html_content))
        IN  /\ dom_data.type = "doc"
            /\ dom_data.title =
                 IF titles = <<>>
                 THEN <<"N", "o", " ", "t", "i", "t", "l", "e", " ",
                        "f", "o", "u", "n", "d">>
                                ELSE TrimmedText(html_content, titles[1])

\* The rows of the table at t that have cells, as cell-text sequences in
\* document order.
RowsWithCells(m, t) ==
    LET cellsOf(r) ==
            SelectSeq(Idx(r + 1, EndOf(m, r) - 1),
                      LAMBDA k : IsStart(m[k]) /\ TagName(m[k]) \in {"td", "th"})
        rows == SelectSeq(TagsBetween(m, "tr", t + 1, EndOf(m, t) - 1),
                          LAMBDA r : cellsOf(r) # <<>>)
    IN  [j \in 1..Len(rows) |->
            [c \in 1..Len(cellsOf(rows[j])) |->
                TrimmedText(m, cellsOf(rows[j])[c])]]

\* C24: the stored tables are, in document order, the table elements that
\* have a row with cells; the entry of a table holds one cell-text sequence
\* for each of its rows that has cells, in document order, each row once.
\* The markup <table><tr><td>A</td><td>B</td></tr></table> gives
\* [["A", "B"]].
C24_TablesRowByRow ==
    ReturnedDocument =>
        LET m == html_content
            kept == SelectSeq(TagsBetween(m, "table", 1, Len(m)),
                              LAMBDA t : RowsWithCells(m, t) # <<>>)
        IN  /\ Len(dom_data.tables) = Len(kept)
            /\ \A j \in 1..Len(kept) :
                   dom_data.tables[j] = RowsWithCells(m, kept[j])
            /\ m = <<"<table>", "<tr>", "<td>", "A", "</td>", "<td>", "B",
                     "</td>", "</tr>", "</table>">>
                 => dom_data.tables = << << <<<<"A">>, <<"B">>>> >> >>

\* A page with a table that has rows, a row without cells, and a table
\* inside a table.
C24_Witness ==
    /\ ReturnedDocument
    /\ Len(dom_data.tables) = 3
    /\ Len(dom_data.tables[1]) = 1
    /\ Len(dom_data.tables[2]) = 2
    /\ \E k \in 1..(Len(html_content) - 1) :
           html_content[k] = "<tr>" /\ html_content[k + 1] = "</tr>"

----------------------------------------------------------------------------
\* More properties of create_content_chunks

SentenceMarks == {".", "!", "?"}

\* Cutting the normalized text between its characters i - 1 and i is
\* cutting at a natural boundary: next to a space, or in front of
\* sentence-ending punctuation that a space follows.
NaturalCut(i) ==
    \/ content_text[i - 1] = " "
    \/ content_text[i] = " "
    \/ /\ i < Len(content_text)
       /\ content_text[i] \in SentenceMarks
       /\ content_text[i + 1] = " "

\* The places where the returned chunks begin and end inside the text.
CutsMade ==
    {chunks[k].at : k \in 1..Len(chunks)}
        \cup {ChunkEnd(k) + 1 : k \in 1..Len(chunks)}

RawCuts == {i \in CutsMade \cap 2..Len(content_text) : ~NaturalCut(i)}

\* The stretch around a raw cut that no natural boundary divides, from the
\* last natural boundary before the cut to the next one after it.
StretchBounds(i) ==
    LET lows == {j \in 2..(i - 1) : NaturalCut(j)}
        highs == {j \in (i + 1)..Len(content_text) : NaturalCut(j)}
    IN  [lo |-> IF lows = {} THEN 1
                ELSE CHOOSE j \in lows : \A q \in lows : q <= j,
         hi |-> IF highs = {} THEN Len(content_text)
                ELSE (CHOOSE j \in highs : \A q \in highs : j <= q) - 1]

\* Its length.
StretchLength(i) == StretchBounds(i).hi - StretchBounds(i).lo + 1

\* Its length with the space that leads it.
PieceLength(i) ==
    LET lo == StretchBounds(i).lo
    IN  IF lo > 1 /\ content_text[lo - 1] = " "
        THEN StretchLength(i) + 1 ELSE StretchLength(i)

\* The sentence separator stands at position i of the normalized text.
SentenceBreak(i) ==
    /\ i < Len(content_text)
    /\ content_text[i] \in SentenceMarks
    /\ content_text[i + 1] = " "

\* A cut at a sentence separator, or one that only spaces part from it (the
\* chunks are stripped).
SentenceCut(i) ==
    \E j \in 1..Len(content_text) :
        /\ SentenceBreak(j)
        /\ \A q \in (IF i < j THEN i ELSE j)..((IF i < j THEN j ELSE i) - 1) :
               q # j => content_text[q] = " "

SpaceCuts ==
    {i \in CutsMade \cap 2..Len(content_text) : NaturalCut(i) /\ ~SentenceCut(i)}

\* The stretch around a cut that no sentence separator divides.
SentenceLength(i) ==
    LET lows == {j \in 1..(i - 1) : SentenceBreak(j)}
        highs == {j \in (i + 1)..Len(content_text) : SentenceBreak(j)}
        lo == IF lows = {} THEN 1
              ELSE CHOOSE j \in lows : \A q \in lows : q <= j
        hi == IF highs = {} THEN Len(content_text)
              ELSE (CHOOSE j \in highs : \A q \in highs : j <= q) - 1
    IN  hi - lo + 1

\* The separator the split starts with is the first of the list that the
\* normalized text holds; this is never a paragraph or line break, which
\* normalization has turned into spaces.
FirstSeparatorIsHighestPresent ==
    /\ separator \in 3..Len(Separators)
    /\ Separators[separator] = <<>> \/ Occurs(Separators[separator], content_text)
    /\ \A j \in 1..(separator - 1) : ~Occurs(Separators[j], content_text)

\* A cut at a space that is no sentence boundary is made only in a sentence
\* too long for a chunk.
SpaceCutsOnlyInLongSentences ==
    \A i \in SpaceCuts : SentenceLength(i) > chunk_size

BundleDocument == content.dom_data

\* The heading lines: all of h1, then all of h2, then all of h3, each tagged
\* with its level.
TaggedHeadings ==
    LET h == BundleDocument.headings
        n1 == Len(h.h1)
        n2 == Len(h.h2)
    IN  [k \in 1..(n1 + n2 + Len(h.h3)) |->
            IF k <= n1 THEN <<"H", "1", ":", " ">> \o h.h1[k]
            ELSE IF k <= n1 + n2 THEN <<"H", "2", ":", " ">> \o h.h2[k - n1]
            ELSE <<"H", "3", ":", " ">> \o h.h3[k - n1 - n2]]

RECURSIVE ItemsFrom(_)
\* The items of the lists of the document from the k-th list on.
ItemsFrom(k) ==
    IF k > Len(BundleDocument.lists) THEN <<>>
    ELSE BundleDocument.lists[k].items \o ItemsFrom(k + 1)

TitleLine == <<"T", "i", "t", "l", "e", ":", " ">> \o BundleDocument.title

\* What follows the title line: the description line when the description
\* is not empty, the heading lines, the paragraphs, the list items.
LinesAfterTitle ==
    (IF BundleDocument.meta_description = <<>> THEN <<>>
     ELSE << <<"D", "e", "s", "c", "r", "i", "p", "t", "i", "o", "n", ":", " ">>
             \o BundleDocument.meta_description >>)
    \o TaggedHeadings \o BundleDocument.paragraphs \o ItemsFrom(1)

RECURSIVE LinesOf(_)
\* The lines of a text, the inverse of joining them with line breaks.
LinesOf(t) ==
    IF \A k \in 1..Len(t) : t[k] # "\n" THEN <<t>>
    ELSE LET k == CHOOSE q \in 1..Len(t) :
                      t[q] = "\n" /\ \A j \in 1..(q - 1) : t[j] # "\n"
         IN  <<SubSeq(t, 1, k - 1)>> \o LinesOf(SubSeq(t, k + 1, Len(t)))

\* The text stream has been built from a bundle with a document.
BundleTextBuilt == cpc = "cleaned" /\ content.type = "dict"

\* C26 as stated: the text stream built from a bundle is the title line,
\* then the description line when the description is not empty, the heading
\* lines by level, the paragraphs and the list items, and nothing else.
C26_StreamStartsWithTitleLine ==
    BundleTextBuilt =>
        LinesOf(content_text) = <<TitleLine>> \o LinesAfterTitle

\* C26, amended: the title line is there when the title is not empty; the
\* rest as stated. A text stream without any line is the empty text.
C26_StreamFromDocumentOnly ==
    BundleTextBuilt =>
        LET lines == (IF BundleDocument.title = <<>> THEN <<>>
                      ELSE <<TitleLine>>) \o LinesAfterTitle
        IN  IF lines = <<>> THEN content_text = <<>>
            ELSE LinesOf(content_text) = lines

C26_Witness ==
    /\ BundleTextBuilt
    /\ BundleDocument.title = <<>>
    /\ BundleDocument.headings.h1 # <<>>
    /\ content_text = <<"H", "1", ":", " ", "H">>

\* C27: create_content_chunks called on a bundle that scrape_website
\* returned never raises, whether the bundle holds a document or None; it
\* returns a list of chunks.
C27_ChunkOfBundleNeverRaises ==
    content.type = "dict" =>
        /\ ~chunk_raised
        /\ cpc # "raised"

----------------------------------------------------------------------------
\* Properties of interleaved calls of scrape_website

\* What the call t returns when it runs alone and its strategies end as
\* they did: Strategy A with the body or fault recorded in a, Strategy B,
\* if it ran to its end, with the document its own navigation loaded.
AloneResult(t) ==
    LET c == thread[t]
        afterA == IF c.a.type = "str" THEN c.a ELSE NoneVal
        h == IF ~Falsy(afterA) THEN afterA
             ELSE IF c.b = "success" THEN c.loaded ELSE NoneVal
    IN  IF c.in_url = <<>> THEN StrVal(EmptyUrlMessage)
        ELSE Outcome(h, c.parse_dom,
                     IF StartsWith(c.in_url, HttpPrefix)
                           \/ StartsWith(c.in_url, HttpsPrefix)
                     THEN c.in_url ELSE HttpsPrefix \o c.in_url)

\* C22: of two interleaved calls, each that falls back to Strategy B
\* launches a browser session of its own, which no other call uses and
\* which is not one launched before; and each call returns what it returns
\* when run alone with the same strategy outcomes.
C22_CallsIndependent ==
    /\ \A k \in 1..Len(sessions) :
          /\ sessions[k].used_by = {sessions[k].owner}
          /\ \A j \in 1..Len(sessions) :
                sessions[j].owner = sessions[k].owner => j = k
    /\ \A t \in Threads :
          /\ thread[t].pc \in {"stealth", "navigate", "source", "quit"} =>
                /\ thread[t].driver \in 1..Len(sessions)
                /\ sessions[thread[t].driver].owner = t
          /\ thread[t].pc = "done" => thread[t].ret = AloneResult(t)

\* The second call launched its browser first and has read its page; the
\* first call launched its own meanwhile, loaded another document and has
\* returned it.
C22_Witness ==
    /\ Len(sessions) = 2
    /\ sessions[1].owner = "second"
    /\ sessions[1].open
    /\ thread["second"].pc = "quit"
    /\ thread["first"].pc = "done"
    /\ thread["first"].b = "success"
    /\ thread["first"].loaded # thread["second"].loaded
    /\ thread["first"].ret = thread["first"].loaded

----------------------------------------------------------------------------
\* Properties of the main page

\* The session keys get their first values.
SessionKeysCreated ==
    /\ ui_pc = "init"
    /\ scraped_content' = IF scraped_content = NoneVal THEN StrVal(<<>>)
                          ELSE scraped_content
    /\ dom_visible' = IF dom_visible = NoneVal THEN [type |-> "bool", b |-> FALSE]
                      ELSE dom_visible

\* The handler of a click with a URL stores a result that is no failure
\* sentinel.
SuccessfulScrapeStored ==
    /\ ui_pc = "button"
    /\ scrape_clicked
    /\ ui_url # <<>>
    /\ ~(ui_result'.type = "str" /\ StartsWith(ui_result'.s, <<ErrorMarker>>))
    /\ scraped_content' = ui_result'
    /\ dom_visible' = [type |-> "bool", b |-> TRUE]

\* C28: after their creation scraped_content and dom_visible change only
\* when the handler of a Scrape Site click stores the result of a
\* successful scrape; a failed scrape and a click without URL leave both as
\* they are, and scraped_content never holds a failure sentinel.
C28_WrittenOnlyBySuccessfulScrape ==
    /\ [][(scraped_content' # scraped_content \/ dom_visible' # dom_visible)
             => (SessionKeysCreated \/ SuccessfulScrapeStored)]_vars
    /\ [](scraped_content # NoneVal =>
             ~StartsWith(scraped_content.s, <<ErrorMarker>>))

\* A failed scrape has been shown while the page of an earlier scrape is
\* still stored.
C28_Witness ==
    /\ ui_pc = "rest"
    /\ ui_shown = "error"
    /\ ui_result = StrVal(AllFailedMessage)
    /\ scraped_content = StrVal(PlainPage)
    /\ dom_visible = [type |-> "bool", b |-> TRUE]

\* C29: once an example is selected, and for as long as the user leaves
\* the selection alone, the chain of reruns ends and the script comes to the
\* Scrape Site button with url equal to the example's URL.
C29_ExampleReachesScrapeButton ==
    \A o \in DOMAIN example_urls \ {NoExample} :
        (selected_example = o) ~>
            \/ ui_pc = "button" /\ ui_url = example_urls[o]
            \/ selected_example # o

====
